---------------------------- MODULE Spec2Model ----------------------------
(***************************************************************************)
(* A model of mypy/fastparse.py: the conversion of a typed_ast tree into   *)
(* mypy's semantic tree.  Each component of the converter is a group of    *)
(* variables with its own specification:                                   *)
(*   SpecOverloads  ASTConverter.fix_function_overloads                    *)
(*   SpecTypes      TypeConverter and parse_type_comment                   *)
(*   SpecArgs       ASTConverter.transform_args                            *)
(*   SpecExprs      ASTConverter.visit on an expression                    *)
(*   SpecModule     ASTConverter.visit on a module (functions, classes)    *)
(***************************************************************************)
EXTENDS Integers, Sequences, FiniteSets, TLC

VARIABLES
    \* ---- fix_function_overloads: its argument, loop position and locals
    stmts,                  \* the argument: the converted statements of a block
    i,                      \* index of the statement the for loop looks at next
    ret,                    \* local ret
    current_overload,       \* local current_overload
    current_overload_name,  \* local current_overload_name (NoneStr for None)
    pc,                     \* "loop" | "done" (the function has returned ret)
    \* ---- the type-expression evaluator: one evaluation of an annotation
    \*      or of the text of a type comment
    t_input,                \* [k |-> "node", node] or [k |-> "text", text]
    t_result,               \* the type returned (PyNone for None)
    t_errors,               \* the diagnostics reported to the sink, in order
    t_stack,                \* node_stack of the converter after the visit
    t_pc,                   \* "call" | "done"
    \* ---- ASTConverter: one conversion, as parse() runs it
    ast,                    \* the raw tree handed to the converter
    options,                \* self.options
    errors,                 \* self.errors: the diagnostics reported, in order
    class_nesting,          \* self.class_nesting
    imports,                \* self.imports
    tree,                   \* what the conversion returned
    c_pc,                   \* "call" | "done"
    \* ---- parse(): one call
    source,                 \* the source text, by what the raw parser makes of it
    sink,                   \* the argument `errors`: "None" or "Errors"
    raise_on_error,         \* local raise_on_error
    p_pc,                   \* "start" | "parse" | "convert" | "check" |
                            \* "returned" | "raised"
    \* ---- ASTConverter.visit, call by call
    visiting                \* the visit calls in progress, outermost first:
                            \* [node, next], next the statement of node's
                            \* body to be visited next

overloadVars == <<stmts, i, ret, current_overload, current_overload_name, pc>>

typeVars == <<t_input, t_result, t_errors, t_stack, t_pc>>

convVars == <<ast, options, errors, class_nesting, imports, tree, c_pc>>

parseVars == <<source, sink, raise_on_error, p_pc>>

walkVars == <<visiting>>

vars == <<overloadVars, typeVars, convVars, parseVars, walkVars>>

\* Python's None where a string is expected (no identifier is spelled so).
NoneStr == "None"

\* Python's None where an object is expected.
PyNone == [k |-> "None"]

(***************************************************************************)
(* Bounds.                                                                 *)
(***************************************************************************)
\* statements of a block handed to fix_function_overloads
MaxStmts == 4
\* elements of a tuple, of a bracketed list or of a tuple-valued subscript
MaxElts == 2
\* positional arguments of a constructor call
MaxCallArgs == 3
\* keyword arguments of a constructor call
MaxKeywords == 1
\* positional parameters of a function
MaxParams == 3
\* keyword-only parameters of a function
MaxKwOnly == 2

(***************************************************************************)
(* Helpers on sequences.                                                   *)
(***************************************************************************)
Range(s) == {s[j] : j \in 1..Len(s)}

SeqsUpTo(S, n) == UNION {[1..m -> S] : m \in 0..n}

(***************************************************************************)
(* ---- fix_function_overloads (fastparse.py 273-300) ----                 *)
(* A converted statement is a record: k is its class, name its name() for  *)
(* the classes that have one, line its line (distinct per statement of a   *)
(* block, so that a statement is told from another of the same shape).     *)
(***************************************************************************)
FuncNames == {"f", "g"}

StmtShapes ==
    [k : {"Decorator", "FuncDef", "ClassDef"}, name : FuncNames]
        \cup {[k |-> "PassStmt"]}

\* The statement of shape sh converted from the statement at line ln.
StmtAt(sh, ln) ==
    IF sh.k = "PassStmt" THEN [k |-> "PassStmt", line |-> ln]
    ELSE [k |-> sh.k, name |-> sh.name, line |-> ln]

\* The blocks translate_stmt_list can hand over: any statements, in line order.
Blocks ==
    {[j \in 1..Len(sh) |-> StmtAt(sh[j], j)] : sh \in SeqsUpTo(StmtShapes, MaxStmts)}

OverloadedFuncDef(items) == [k |-> "OverloadedFuncDef", items |-> items]

\* A slip: every statement that has a name counts as a part of an overload.
IsOverloadPart_AnyNamed(stmt) == stmt.k \in {"Decorator", "FuncDef", "ClassDef"}

\* isinstance(stmt, (Decorator, FuncDef))
IsOverloadPart(stmt) == stmt.k \in {"Decorator", "FuncDef"}

\* A slip: a bare function opens a run too.
OpensOverload_AnyFunc(stmt) == stmt.k \in {"Decorator", "FuncDef"}

\* isinstance(stmt, Decorator), line 288: the statement opens a run.
OpensOverload(stmt) == stmt.k = "Decorator"

\* A slip: the name of the statement is not compared with the run's.
ContinuesOverload_AnyName(stmt, name) ==
    /\ name # NoneStr
    /\ IsOverloadPart(stmt)

\* The condition of lines 278-280.
ContinuesOverload(stmt, name) ==
    /\ name # NoneStr
    /\ IsOverloadPart(stmt)
    /\ stmt.name = name

\* A slip: a run of one statement is wrapped as well.
FlushOverload_WrapSingle(r, cur) ==
    IF Len(cur) >= 1 THEN Append(r, OverloadedFuncDef(cur)) ELSE r

\* Lines 283-286 and 296-299: ret after the run `cur` is flushed into it.
FlushOverload(r, cur) ==
    IF Len(cur) = 1 THEN Append(r, cur[1])
    ELSE IF Len(cur) > 1 THEN Append(r, OverloadedFuncDef(cur))
    ELSE r

\* The components that a specification leaves alone stay as they are here.
OverloadIdle ==
    /\ stmts = <<>>
    /\ i = 0
    /\ ret = <<>>
    /\ current_overload = <<>>
    /\ current_overload_name = NoneStr
    /\ pc = "idle"

TypeIdle ==
    /\ t_input = PyNone
    /\ t_result = PyNone
    /\ t_errors = <<>>
    /\ t_stack = <<>>
    /\ t_pc = "idle"

ConvIdle ==
    /\ ast = PyNone
    /\ options = PyNone
    /\ errors = <<>>
    /\ class_nesting = 0
    /\ imports = <<>>
    /\ tree = PyNone
    /\ c_pc = "idle"

\* No visit is in progress.
WalkIdle == visiting = <<>>

\* parse is not running.
ParseIdle ==
    /\ source = PyNone
    /\ sink = "None"
    /\ raise_on_error = FALSE
    /\ p_pc = "idle"

OverloadInit ==
    /\ TypeIdle
    /\ ConvIdle
    /\ ParseIdle
    /\ WalkIdle
    /\ stmts \in Blocks
    /\ i = 1
    /\ ret = <<>>
    /\ current_overload = <<>>
    /\ current_overload_name = NoneStr
    /\ pc = "loop"

\* One iteration of the for loop (lines 277-294) on the loop's variables
\* lc = [ret, current_overload, current_overload_name].
OverloadStep(lc, stmt) ==
    IF ContinuesOverload(stmt, lc.current_overload_name)
    THEN [lc EXCEPT !.current_overload = Append(@, stmt)]
    ELSE LET flushed == FlushOverload(lc.ret, lc.current_overload) IN
         IF OpensOverload(stmt)
         THEN [ret |-> flushed, current_overload |-> <<stmt>>,
               current_overload_name |-> stmt.name]
         ELSE [ret |-> Append(flushed, stmt), current_overload |-> <<>>,
               current_overload_name |-> NoneStr]

RECURSIVE OverloadFold(_, _)
\* The whole for loop over the statements l.
OverloadFold(lc, l) ==
    IF l = <<>> THEN lc ELSE OverloadFold(OverloadStep(lc, Head(l)), Tail(l))

\* Lines 296-300: the last flush, and the list returned.
OverloadResult(lc) == FlushOverload(lc.ret, lc.current_overload)

\* ASTConverter.fix_function_overloads (273-300), as one call.
fix_function_overloads(l) ==
    OverloadResult(OverloadFold([ret |-> <<>>, current_overload |-> <<>>,
                                 current_overload_name |-> NoneStr], l))

\* One iteration of the loop, as a step of the coalescer.
OverloadLoop ==
    /\ pc = "loop"
    /\ i <= Len(stmts)
    /\ LET lc == OverloadStep([ret |-> ret, current_overload |-> current_overload,
                               current_overload_name |-> current_overload_name],
                              stmts[i])
       IN  /\ ret' = lc.ret
           /\ current_overload' = lc.current_overload
           /\ current_overload_name' = lc.current_overload_name
    /\ i' = i + 1
    /\ UNCHANGED <<stmts, pc, typeVars, convVars, parseVars, walkVars>>

\* A slip: the run still open at the end of the input is not flushed.
OverloadReturn_NoFlush ==
    /\ pc = "loop"
    /\ i > Len(stmts)
    /\ pc' = "done"
    /\ UNCHANGED <<stmts, i, ret, current_overload, current_overload_name,
                   typeVars, convVars, parseVars, walkVars>>

\* The end of the loop: the last flush and the return (lines 296-300).
OverloadReturn ==
    /\ pc = "loop"
    /\ i > Len(stmts)
    /\ ret' = FlushOverload(ret, current_overload)
    /\ pc' = "done"
    /\ UNCHANGED <<stmts, i, current_overload, current_overload_name,
                   typeVars, convVars, parseVars, walkVars>>

OverloadNext == OverloadLoop \/ OverloadReturn

SpecOverloads == OverloadInit /\ [][OverloadNext]_vars

(***************************************************************************)
(* ---- Python values and raw (typed_ast) nodes ----                       *)
(* Every optional value is a record with a field k, so that None compares  *)
(* with any of them.  A text (the content of a string literal, a type      *)
(* comment) is a sequence of tokens; " " is the blank.                     *)
(***************************************************************************)
PyStr(chars) == [k |-> "str", s |-> chars]

RECURSIVE LStrip(_)
LStrip(t) == IF t # <<>> /\ Head(t) = " " THEN LStrip(Tail(t)) ELSE t

RECURSIVE RStrip(_)
RStrip(t) ==
    IF t # <<>> /\ t[Len(t)] = " " THEN RStrip(SubSeq(t, 1, Len(t) - 1)) ELSE t

\* str.strip() (lines 1123, 1138)
Strip(t) == RStrip(LStrip(t))

\* Raw expression nodes as the type-expression evaluator reads them.
\* col_offset tells the nodes of one expression apart in the diagnostics.
Name(id, col) == [k |-> "Name", id |-> id, lineno |-> 1, col_offset |-> col]

NameConstant(value, col) ==
    [k |-> "NameConstant", value |-> value, lineno |-> 1, col_offset |-> col]

Ellipsis(col) == [k |-> "Ellipsis", lineno |-> 1, col_offset |-> col]

Num(n, col) == [k |-> "Num", n |-> n, lineno |-> 1, col_offset |-> col]

Str(text, col) == [k |-> "Str", s |-> text, lineno |-> 1, col_offset |-> col]

Attribute(value, attr, col) ==
    [k |-> "Attribute", value |-> value, attr |-> attr,
     lineno |-> 1, col_offset |-> col]

Index(value) == [k |-> "Index", value |-> value]

Slice(lower, upper, step) ==
    [k |-> "Slice", lower |-> lower, upper |-> upper, step |-> step]

ExtSlice(dims) == [k |-> "ExtSlice", dims |-> dims]

Subscript(value, slice, col) ==
    [k |-> "Subscript", value |-> value, slice |-> slice,
     lineno |-> 1, col_offset |-> col]

Tuple(elts, col) == [k |-> "Tuple", elts |-> elts, lineno |-> 1, col_offset |-> col]

List(elts, col) ==
    [k |-> "List", elts |-> elts, ctx |-> "Load", lineno |-> 1, col_offset |-> col]

Starred(value, col) ==
    [k |-> "Starred", value |-> value, lineno |-> 1, col_offset |-> col]

UnaryOp(op, operand, col) ==
    [k |-> "UnaryOp", op |-> op, operand |-> operand, lineno |-> 1, col_offset |-> col]

BinOp(left, op, right, col) ==
    [k |-> "BinOp", left |-> left, op |-> op, right |-> right,
     lineno |-> 1, col_offset |-> col]

BoolOp(op, values, col) ==
    [k |-> "BoolOp", op |-> op, values |-> values, lineno |-> 1, col_offset |-> col]

JoinedStr(values, col) ==
    [k |-> "JoinedStr", values |-> values, lineno |-> 1, col_offset |-> col]

FormattedValue(value, conversion, format_spec, col) ==
    [k |-> "FormattedValue", value |-> value, conversion |-> conversion,
     format_spec |-> format_spec, lineno |-> 1, col_offset |-> col]

\* The node n as the parser places it at (line, col).
At(n, line, col) == [n EXCEPT !.lineno = line, !.col_offset = col]

keyword(arg, value) == [arg |-> arg, value |-> value]

Call(func, args, keywords, col) ==
    [k |-> "Call", func |-> func, args |-> args, keywords |-> keywords,
     lineno |-> 1, col_offset |-> col]

(***************************************************************************)
(* ---- mypy.types values built by the evaluator ----                      *)
(***************************************************************************)
AnyType(type_of_any) == [k |-> "AnyType", type_of_any |-> type_of_any]

UnboundType(name, args, line, empty_tuple_index) ==
    [k |-> "UnboundType", name |-> name, args |-> args, line |-> line,
     empty_tuple_index |-> empty_tuple_index, optional |-> FALSE]

TupleType(items, line) ==
    [k |-> "TupleType", items |-> items, implicit |-> TRUE, line |-> line]

EllipsisType(line) == [k |-> "EllipsisType", line |-> line]

TypeList(items, line) == [k |-> "TypeList", items |-> items, line |-> line]

CallableArgument(typ, name, constructor, line, column) ==
    [k |-> "CallableArgument", typ |-> typ, name |-> name,
     constructor |-> constructor, line |-> line, column |-> column]

\* The line and column of a type built without them (mypy.types.Type.__init__).
NoLine == -1

(***************************************************************************)
(* ---- Diagnostics (the Errors sink) ----                                 *)
(***************************************************************************)
TYPE_COMMENT_SYNTAX_ERROR == <<"syntax error in type comment">>

TYPE_COMMENT_AST_ERROR == <<"invalid type comment or annotation">>

\* errors.report(line, column, msg, blocker=True)
Blocker(line, column, msg) ==
    [line |-> line, column |-> column, msg |-> msg,
     severity |-> "error", blocker |-> TRUE]

\* errors.report(line, column, msg, severity='note')
Note(line, column, msg) ==
    [line |-> line, column |-> column, msg |-> msg,
     severity |-> "note", blocker |-> FALSE]

(***************************************************************************)
(* ---- stringify_name (lines 1187-1194) ----                              *)
(***************************************************************************)
RECURSIVE stringify_name(_)
stringify_name(n) ==
    IF n.k = "Name" THEN n.id
    ELSE IF n.k = "Attribute"
    THEN LET sv == stringify_name(n.value) IN
         IF sv # NoneStr THEN sv \o "." \o n.attr ELSE NoneStr
    ELSE NoneStr

(***************************************************************************)
(* ---- ast3.parse (typed_ast, an external collaborator) ----              *)
(* The parser is modelled by its contract on the texts the model uses: a   *)
(* text parses to the tree whose source text it is, and any other text is  *)
(* a SyntaxError.  Unparse writes a tree as its canonical token sequence.  *)
(***************************************************************************)
RECURSIVE Unparse(_), UnparseList(_)
Unparse(n) ==
    CASE n.k = "Name" -> <<n.id>>
      [] n.k = "NameConstant" -> <<n.value>>
      [] n.k = "Ellipsis" -> <<"...">>
      [] n.k = "Num" -> <<n.n>>
      [] n.k = "Str" -> <<"'">> \o n.s \o <<"'">>
      [] n.k = "Attribute" -> Unparse(n.value) \o <<".", n.attr>>
      [] n.k = "Subscript" ->
            Unparse(n.value) \o <<"[">>
                \o (IF n.slice.k # "Index" THEN <<":">>
                    ELSE IF n.slice.value.k = "Tuple" /\ n.slice.value.elts # <<>>
                    THEN UnparseList(n.slice.value.elts)
                    ELSE Unparse(n.slice.value))
                \o <<"]">>
      [] n.k = "Tuple" ->
            <<"(">> \o UnparseList(n.elts)
                \o (IF Len(n.elts) = 1 THEN <<",">> ELSE <<>>) \o <<")">>
      [] n.k = "List" -> <<"[">> \o UnparseList(n.elts) \o <<"]">>
      [] n.k = "Call" ->
            Unparse(n.func) \o <<"(">>
                \o UnparseList(n.args
                     \o [j \in 1..Len(n.keywords) |->
                            [k |-> "kw", arg |-> n.keywords[j].arg,
                             value |-> n.keywords[j].value]])
                \o <<")">>
      [] n.k = "kw" -> <<n.arg, "=">> \o Unparse(n.value)

UnparseList(l) ==
    IF l = <<>> THEN <<>>
    ELSE IF Len(l) = 1 THEN Unparse(l[1])
    ELSE Unparse(l[1]) \o <<",">> \o UnparseList(Tail(l))

\* FunctionType(argtypes, returns), what mode 'func_type' parses to.
FunctionType(argtypes, returns) ==
    [k |-> "FunctionType", argtypes |-> argtypes, returns |-> returns]

UnparseFuncType(ft) ==
    <<"(">> \o UnparseList(ft.argtypes) \o <<")", "->">> \o Unparse(ft.returns)

\* The trees of the texts that appear inside string literals and in the type
\* comments of parameters.
ParsableExprs ==
    {Name("int", 0), Name("str", 0), NameConstant("None", 0), Ellipsis(0),
     Name("x", 0), Name("y", 0), Num("1", 0),
     Subscript(Name("List", 0), Index(Name("int", 0)), 0),
     Call(Name("Arg", 0), <<Name("int", 0)>>, <<>>, 0)}

\* Texts no grammar of the parser accepts.
BadTexts == {<<>>, <<"int", "->">>, <<"(", "int">>, <<"int", ",", "int", "->", "str">>}

\* ast3.parse(text, ..., 'eval'): the Expression body, or a SyntaxError.
ast3_parse_eval(text) ==
    IF \E n \in ParsableExprs : Unparse(n) = text
    THEN [ok |-> TRUE, body |-> CHOOSE n \in ParsableExprs : Unparse(n) = text]
    ELSE [ok |-> FALSE, offset |-> Len(text)]

(***************************************************************************)
(* ---- TypeConverter (lines 1018-1184) ----                               *)
(* The state of a converter is st = [errors, node_stack, line]; a visit    *)
(* returns the type (PyNone for None) and the state after it.              *)
(***************************************************************************)
\* TypeConverter.__init__ (1019-1022)
TypeConverter(errs, line) ==
    [errors |-> errs, node_stack |-> <<>>, line |-> line]

\* A slip: the node at the bottom of the stack is taken for the parent.
TC_parent_Outermost(st) ==
    IF Len(st.node_stack) < 2 THEN PyNone
    ELSE st.node_stack[1]

\* TypeConverter.parent (1046-1050)
TC_parent(st) ==
    IF Len(st.node_stack) < 2 THEN PyNone
    ELSE st.node_stack[Len(st.node_stack) - 1]

\* TypeConverter.fail (1052-1054)
TC_fail(st, msg, line, column) ==
    [st EXCEPT !.errors = Append(@, Blocker(line, column, msg))]

\* TypeConverter.note (1056-1058)
TC_note(st, msg, line, column) ==
    [st EXCEPT !.errors = Append(@, Note(line, column, msg))]

\* A slip: the name is taken as written, not stripped.
TC_extract_argument_name_Unstripped(n, st) ==
    IF n.k = "Str" THEN [name |-> PyStr(n.s), st |-> st]
    ELSE [name |-> PyNone, st |-> st]

\* TypeConverter._extract_argument_name (1121-1128)
TC_extract_argument_name(n, st) ==
    IF n.k = "Str" THEN [name |-> PyStr(Strip(n.s)), st |-> st]
    ELSE IF n.k = "NameConstant" /\ n.value = "None"
    THEN [name |-> PyNone, st |-> st]
    ELSE [name |-> PyNone,
          st |-> TC_fail(st, <<"Expected string literal for argument name, got {}", n.k>>,
                         st.line, 0)]

RECURSIVE TC_visit(_, _), TC_translate_expr_list(_, _), TC_call_args(_, _, _),
          TC_call_keywords(_, _, _, _), TC_visit_Call(_, _),
          TC_visit_Subscript(_, _), TC_visit_Attribute(_, _), TC_visit_Str(_, _),
          parse_type_comment(_, _, _)

RECURSIVE TC_translate_expr_list_StopAtError(_, _)
\* A slip: the list ends at the first element that reports a diagnostic.
TC_translate_expr_list_StopAtError(l, st) ==
    IF l = <<>> THEN [ts |-> <<>>, st |-> st]
    ELSE LET h == TC_visit(Head(l), st) IN
         IF h.st.errors # st.errors THEN [ts |-> <<h.t>>, st |-> h.st]
         ELSE LET r == TC_translate_expr_list_StopAtError(Tail(l), h.st)
              IN  [ts |-> <<h.t>> \o r.ts, st |-> r.st]

\* TypeConverter.translate_expr_list (1067-1068)
TC_translate_expr_list(l, st) ==
    IF l = <<>> THEN [ts |-> <<>>, st |-> st]
    ELSE LET h == TC_visit(Head(l), st)
             r == TC_translate_expr_list(Tail(l), h.st)
         IN  [ts |-> <<h.t>> \o r.ts, st |-> r.st]

\* A slip: positional arguments beyond the second are silently ignored.
RECURSIVE TC_call_args_NoArityCheck(_, _, _)
TC_call_args_NoArityCheck(e, j, acc) ==
    IF j > Len(e.args) THEN acc
    ELSE LET arg == e.args[j] IN
         TC_call_args_NoArityCheck(e, j + 1,
            IF j = 1
            THEN LET r == TC_visit(arg, acc.st) IN
                 [typ |-> r.t, typ_is_default |-> FALSE, name |-> acc.name, st |-> r.st]
            ELSE IF j = 2
            THEN LET r == TC_extract_argument_name(arg, acc.st) IN
                 [acc EXCEPT !.name = r.name, !.st = r.st]
            ELSE acc)

\* The loop over e.args from its j-th element on (1088-1097).
TC_call_args(e, j, acc) ==
    IF j > Len(e.args) THEN acc
    ELSE LET arg == e.args[j] IN
         TC_call_args(e, j + 1,
            IF j = 1
            THEN LET r == TC_visit(arg, acc.st) IN
                 [typ |-> r.t, typ_is_default |-> FALSE, name |-> acc.name, st |-> r.st]
            ELSE IF j = 2
            THEN LET r == TC_extract_argument_name(arg, acc.st) IN
                 [acc EXCEPT !.name = r.name, !.st = r.st]
            ELSE [acc EXCEPT !.st =
                    TC_fail(@, <<"Too many arguments for argument constructor">>,
                            e.func.lineno, e.func.col_offset)])

\* The loop over e.keywords from its j-th element on (1098-1115).
TC_call_keywords(e, constructor, j, acc) ==
    IF j > Len(e.keywords) THEN acc
    ELSE LET kw == e.keywords[j]
             f == e.func
         IN
         TC_call_keywords(e, constructor, j + 1,
            IF kw.arg = "name"
            THEN LET st1 ==
                        IF acc.name # PyNone
                        THEN TC_fail(acc.st,
                                <<"\"{}\" gets multiple values for keyword argument \"name\"",
                                  constructor>>,
                                f.lineno, f.col_offset)
                        ELSE acc.st
                     r == TC_extract_argument_name(kw.value, st1)
                 IN  [acc EXCEPT !.name = r.name, !.st = r.st]
            ELSE IF kw.arg = "type"
            THEN LET st1 ==
                        IF ~acc.typ_is_default
                        THEN TC_fail(acc.st,
                                <<"\"{}\" gets multiple values for keyword argument \"type\"",
                                  constructor>>,
                                f.lineno, f.col_offset)
                        ELSE acc.st
                     r == TC_visit(kw.value, st1)
                 IN  [typ |-> r.t, typ_is_default |-> FALSE, name |-> acc.name,
                      st |-> r.st]
            ELSE [acc EXCEPT !.st =
                    TC_fail(@, <<"Unexpected argument \"{}\" for argument constructor",
                                 kw.arg>>,
                            kw.value.lineno, kw.value.col_offset)])

\* TypeConverter.visit_Call (1070-1116)
TC_visit_Call(e, st) ==
    LET f == e.func
        constructor == stringify_name(f)
    IN
    IF TC_parent(st).k # "List"
    THEN LET st1 == TC_fail(st, TYPE_COMMENT_AST_ERROR, st.line, e.col_offset)
             st2 == IF constructor # NoneStr
                    THEN TC_note(st1,
                            <<"Suggestion: use {}[...] instead of {}(...)", constructor>>,
                            st.line, e.col_offset)
                    ELSE st1
         IN  [t |-> AnyType("from_error"), st |-> st2]
    ELSE LET st1 == IF constructor = NoneStr
                    THEN TC_fail(st, <<"Expected arg constructor name">>,
                                 e.lineno, e.col_offset)
                    ELSE st
             a == TC_call_args(e, 1,
                     [typ |-> AnyType("special_form"), typ_is_default |-> TRUE,
                      name |-> PyNone, st |-> st1])
             b == TC_call_keywords(e, constructor, 1, a)
         IN  [t |-> CallableArgument(b.typ, b.name, constructor, e.lineno, e.col_offset),
              st |-> b.st]

\* TypeConverter.visit_Str (1137-1139)
TC_visit_Str(n, st) ==
    LET r == parse_type_comment(Strip(n.s), st.line, st.errors) IN
    [t |-> IF r.t = PyNone THEN AnyType("from_error") ELSE r.t,
     st |-> [st EXCEPT !.errors = r.errors]]

\* A slip: a tuple-valued subscript is taken as one argument, a tuple type.
TC_visit_Subscript_TupleAsOne(n, st) ==
    IF n.slice.k # "Index"
    THEN [t |-> AnyType("from_error"),
          st |-> TC_fail(st, TYPE_COMMENT_SYNTAX_ERROR, st.line, n.col_offset)]
    ELSE LET r == TC_visit(n.slice.value, st)
             v == TC_visit(n.value, r.st)
         IN
         IF v.t.k = "UnboundType" /\ v.t.args = <<>>
         THEN [t |-> UnboundType(v.t.name, <<r.t>>, st.line, FALSE), st |-> v.st]
         ELSE [t |-> AnyType("from_error"),
               st |-> TC_fail(v.st, TYPE_COMMENT_AST_ERROR, st.line, n.col_offset)]

\* TypeConverter.visit_Subscript (1142-1161)
TC_visit_Subscript(n, st) ==
    IF n.slice.k # "Index"
    THEN [t |-> AnyType("from_error"),
          st |-> TC_fail(st, TYPE_COMMENT_SYNTAX_ERROR, st.line, n.col_offset)]
    ELSE LET is_tuple == n.slice.value.k = "Tuple"
             p == IF is_tuple
                  THEN TC_translate_expr_list(n.slice.value.elts, st)
                  ELSE LET r == TC_visit(n.slice.value, st) IN
                       [ts |-> <<r.t>>, st |-> r.st]
             empty_tuple_index == is_tuple /\ Len(n.slice.value.elts) = 0
             v == TC_visit(n.value, p.st)
         IN
         IF v.t.k = "UnboundType" /\ v.t.args = <<>>
         THEN [t |-> UnboundType(v.t.name, p.ts, st.line, empty_tuple_index),
               st |-> v.st]
         ELSE [t |-> AnyType("from_error"),
               st |-> TC_fail(v.st, TYPE_COMMENT_AST_ERROR, st.line, n.col_offset)]

\* TypeConverter.visit_Attribute (1168-1175)
TC_visit_Attribute(n, st) ==
    LET b == TC_visit(n.value, st) IN
    IF b.t.k = "UnboundType" /\ b.t.args = <<>>
    THEN [t |-> UnboundType(b.t.name \o "." \o n.attr, <<>>, st.line, FALSE),
          st |-> b.st]
    ELSE [t |-> AnyType("from_error"),
          st |-> TC_fail(b.st, TYPE_COMMENT_AST_ERROR, st.line, n.col_offset)]

\* TypeConverter.visit (1030-1044), with the visit_X methods it dispatches to.
TC_visit(node, st) ==
    IF node = PyNone THEN [t |-> PyNone, st |-> st]
    ELSE
    LET pushed == [st EXCEPT !.node_stack = Append(@, node)]
        r == CASE node.k = "Call" -> TC_visit_Call(node, pushed)
               [] node.k = "Name" ->
                    [t |-> UnboundType(node.id, <<>>, st.line, FALSE), st |-> pushed]
               [] node.k = "NameConstant" ->
                    [t |-> UnboundType(node.value, <<>>, NoLine, FALSE), st |-> pushed]
               [] node.k = "Str" -> TC_visit_Str(node, pushed)
               [] node.k = "Subscript" -> TC_visit_Subscript(node, pushed)
               [] node.k = "Tuple" ->
                    LET l == TC_translate_expr_list(node.elts, pushed) IN
                    [t |-> TupleType(l.ts, st.line), st |-> l.st]
               [] node.k = "Attribute" -> TC_visit_Attribute(node, pushed)
               [] node.k = "Ellipsis" -> [t |-> EllipsisType(st.line), st |-> pushed]
               [] node.k = "List" ->
                    LET l == TC_translate_expr_list(node.elts, pushed) IN
                    [t |-> TypeList(l.ts, st.line), st |-> l.st]
               [] OTHER ->
                    [t |-> AnyType("from_error"),
                     st |-> TC_fail(pushed, TYPE_COMMENT_AST_ERROR, st.line,
                                    node.col_offset)]
    IN  [t |-> r.t,
         st |-> [r.st EXCEPT !.node_stack = SubSeq(@, 1, Len(@) - 1)]]

\* The type and the sink's content after a converter's visit.
TypeAndErrors(r) == [t |-> r.t, errors |-> r.st.errors]

\* A slip: the SyntaxError is swallowed without a report.
parse_type_comment_parsed_Silent(p, line, errs) ==
    IF ~p.ok
    THEN [t |-> PyNone, errors |-> errs]
    ELSE TypeAndErrors(TC_visit(p.body, TypeConverter(errs, line)))

\* Lines 142-152 of parse_type_comment, on what the parser returned.
parse_type_comment_parsed(p, line, errs) ==
    IF ~p.ok
    THEN [t |-> PyNone,
          errors |-> Append(errs, Blocker(line, p.offset, TYPE_COMMENT_SYNTAX_ERROR))]
    ELSE TypeAndErrors(TC_visit(p.body, TypeConverter(errs, line)))

\* parse_type_comment (141-152), called with a sink.
parse_type_comment(type_comment, line, errs) ==
    parse_type_comment_parsed(ast3_parse_eval(type_comment), line, errs)

(***************************************************************************)
(* ---- mypy.nodes: the semantic nodes and their positions ----            *)
(***************************************************************************)
\* The line and column of a node no position was set on (Context.__init__).
NoPos == -1

\* A fresh node of class k with the fields f.
Node(k, f) == [k |-> k, line |-> NoPos, column |-> NoPos] @@ f

\* ASTConverter.set_line (196-199)
set_line(node, n) == [node EXCEPT !.line = n.lineno, !.column = n.col_offset]

\* node.set_line(line): Context.set_line with an int target and no column.
set_line_int(node, line) == [node EXCEPT !.line = line]

\* node.set_line(line, column)
set_line_col(node, line, column) == [node EXCEPT !.line = line, !.column = column]

\* node.set_line(other): Context.set_line with a node as target.
set_line_node(node, other) ==
    [node EXCEPT !.line = other.line, !.column = other.column]

(***************************************************************************)
(* ---- ASTConverter: expressions (lines 729-1015) ----                    *)
(* The conversion of an expression reads and changes no state of the       *)
(* converter (lambdas, which bind arguments, are not modelled).            *)
(***************************************************************************)
\* ASTConverter.op_map and from_operator (217-238)
from_operator(op) ==
    CASE op = "Add" -> "+" [] op = "Sub" -> "-" [] op = "Mult" -> "*"
      [] op = "MatMult" -> "@" [] op = "Div" -> "/" [] op = "Mod" -> "%"
      [] op = "Pow" -> "**" [] op = "LShift" -> "<<" [] op = "RShift" -> ">>"
      [] op = "BitOr" -> "|" [] op = "BitXor" -> "^" [] op = "BitAnd" -> "&"
      [] op = "FloorDiv" -> "//"

\* The operator selection of visit_UnaryOp (765-773)
unary_operator(op) ==
    CASE op = "Invert" -> "~" [] op = "Not" -> "not"
      [] op = "UAdd" -> "+" [] op = "USub" -> "-"

\* The operator selection of visit_BoolOp (735-741)
bool_operator(op) == CASE op = "And" -> "and" [] op = "Or" -> "or"

RECURSIVE AC_expr(_), AC_expr_list(_), AC_group(_, _, _)

\* ASTConverter.translate_expr_list (201-207)
AC_expr_list(l) == [j \in 1..Len(l) |-> AC_expr(l[j])]

\* ASTConverter.group (746-751)
AC_group(op, vals, n) ==
    set_line(
        IF Len(vals) = 2
        THEN Node("OpExpr", [op |-> op, left |-> vals[1], right |-> vals[2]])
        ELSE Node("OpExpr", [op |-> op, left |-> vals[1],
                             right |-> AC_group(op, Tail(vals), n)]),
        n)

\* ASTConverter.visit_FormattedValue (927-941)
AC_visit_FormattedValue(n) ==
    LET exp == set_line_col(AC_expr(n.value), n.lineno, n.col_offset)
        format_string == set_line_col(Node("StrExpr", [value |-> <<"{}">>]),
                                      n.lineno, n.col_offset)
        format_method == set_line_node(
            Node("MemberExpr", [expr |-> format_string, name |-> "format"]),
            format_string)
    IN  set_line(Node("CallExpr", [callee |-> format_method, args |-> <<exp>>,
                                   arg_kinds |-> <<"ARG_POS">>,
                                   arg_names |-> <<NoneStr>>]), n)

\* A slip: the components are joined in reverse.
AC_visit_JoinedStr_Reversed(n) ==
    LET empty_string == set_line_col(Node("StrExpr", [value |-> <<>>]),
                                     n.lineno, n.col_offset)
        strs_to_join == set_line_node(
            Node("ListExpr",
                 [items |-> AC_expr_list([j \in 1..Len(n.values) |->
                                            n.values[Len(n.values) + 1 - j]])]),
            empty_string)
        join_method == set_line_node(
            Node("MemberExpr", [expr |-> empty_string, name |-> "join"]),
            empty_string)
    IN  set_line(Node("CallExpr", [callee |-> join_method, args |-> <<strs_to_join>>,
                                   arg_kinds |-> <<"ARG_POS">>,
                                   arg_names |-> <<NoneStr>>]), n)

\* ASTConverter.visit_JoinedStr (911-924)
AC_visit_JoinedStr(n) ==
    LET empty_string == set_line_col(Node("StrExpr", [value |-> <<>>]),
                                     n.lineno, n.col_offset)
        strs_to_join == set_line_node(
            Node("ListExpr", [items |-> AC_expr_list(n.values)]), empty_string)
        join_method == set_line_node(
            Node("MemberExpr", [expr |-> empty_string, name |-> "join"]),
            empty_string)
    IN  set_line(Node("CallExpr", [callee |-> join_method, args |-> <<strs_to_join>>,
                                   arg_kinds |-> <<"ARG_POS">>,
                                   arg_names |-> <<NoneStr>>]), n)

\* ASTConverter.visit_Call (871-884)
AC_visit_Call(n) ==
    LET args == n.args
        keywords == n.keywords
        arg_types ==
            AC_expr_list([j \in 1..Len(args) |->
                            IF args[j].k = "Starred" THEN args[j].value ELSE args[j]]
                         \o [j \in 1..Len(keywords) |-> keywords[j].value])
        arg_kinds ==
            [j \in 1..Len(args) |->
                IF args[j].k = "Starred" THEN "ARG_STAR" ELSE "ARG_POS"]
            \o [j \in 1..Len(keywords) |->
                IF keywords[j].arg = NoneStr THEN "ARG_STAR2" ELSE "ARG_NAMED"]
    IN  set_line(Node("CallExpr",
                      [callee |-> AC_expr(n.func), args |-> arg_types,
                       arg_kinds |-> arg_kinds,
                       arg_names |-> [j \in 1..Len(args) |-> NoneStr]
                                     \o [j \in 1..Len(keywords) |-> keywords[j].arg]]),
                 n)

\* ASTConverter.visit_NameConstant (952-953)
AC_visit_NameConstant(n) == Node("NameExpr", [name |-> n.value])

\* ASTConverter.visit (185-194) on an expression or a slice, with the
\* visit_X methods it dispatches to.
AC_expr(n) ==
    IF n = PyNone THEN PyNone
    ELSE
    CASE n.k = "Name" -> set_line(Node("NameExpr", [name |-> n.id]), n)
      [] n.k = "NameConstant" -> AC_visit_NameConstant(n)
      [] n.k = "Num" -> set_line(Node("IntExpr", [value |-> n.n]), n)
      [] n.k = "Str" -> set_line(Node("StrExpr", [value |-> n.s]), n)
      [] n.k = "Ellipsis" -> set_line(Node("EllipsisExpr", [a |-> 0]), n)
      [] n.k = "Attribute" ->
            set_line(
                IF n.value.k = "Call" /\ n.value.func.k = "Name"
                    /\ n.value.func.id = "super"
                THEN Node("SuperExpr", [name |-> n.attr, call |-> AC_expr(n.value)])
                ELSE Node("MemberExpr", [expr |-> AC_expr(n.value), name |-> n.attr]),
                n)
      [] n.k = "Subscript" ->
            set_line(Node("IndexExpr", [base |-> AC_expr(n.value),
                                        index |-> AC_expr(n.slice)]), n)
      [] n.k = "Starred" -> set_line(Node("StarExpr", [expr |-> AC_expr(n.value)]), n)
      [] n.k = "List" ->
            set_line(Node(IF n.ctx = "Store" THEN "TupleExpr" ELSE "ListExpr",
                          [items |-> AC_expr_list(n.elts)]), n)
      [] n.k = "Tuple" -> set_line(Node("TupleExpr", [items |-> AC_expr_list(n.elts)]), n)
      [] n.k = "Slice" ->
            Node("SliceExpr", [begin_index |-> AC_expr(n.lower),
                               end_index |-> AC_expr(n.upper),
                               stride |-> AC_expr(n.step)])
      [] n.k = "ExtSlice" -> Node("TupleExpr", [items |-> AC_expr_list(n.dims)])
      [] n.k = "Index" -> AC_expr(n.value)
      [] n.k = "UnaryOp" ->
            set_line(Node("UnaryExpr", [op |-> unary_operator(n.op),
                                        expr |-> AC_expr(n.operand)]), n)
      [] n.k = "BinOp" ->
            set_line(Node("OpExpr", [op |-> from_operator(n.op),
                                     left |-> AC_expr(n.left),
                                     right |-> AC_expr(n.right)]), n)
      [] n.k = "BoolOp" -> AC_group(bool_operator(n.op), AC_expr_list(n.values), n)
      [] n.k = "Call" -> AC_visit_Call(n)
      [] n.k = "JoinedStr" -> AC_visit_JoinedStr(n)
      [] n.k = "FormattedValue" -> AC_visit_FormattedValue(n)

(***************************************************************************)
(* ---- Raw statements and parameter structures (typed_ast) ----           *)
(***************************************************************************)
\* arg(identifier arg, expr? annotation, string? type_comment)
arg(name, annotation, type_comment, line, col) ==
    [k |-> "arg", arg |-> name, annotation |-> annotation,
     type_comment |-> type_comment, lineno |-> line, col_offset |-> col]

\* arguments(arg* args, arg? vararg, arg* kwonlyargs, expr* kw_defaults,
\*           arg? kwarg, expr* defaults)
arguments(args, vararg, kwonlyargs, kw_defaults, kwarg, defaults) ==
    [k |-> "arguments", args |-> args, vararg |-> vararg,
     kwonlyargs |-> kwonlyargs, kw_defaults |-> kw_defaults,
     kwarg |-> kwarg, defaults |-> defaults]

\* FunctionDef(identifier name, arguments args, stmt* body,
\*             expr* decorator_list, expr? returns, string? type_comment)
FunctionDef(name, args, body, decorator_list, returns, type_comment, line, col) ==
    [k |-> "FunctionDef", name |-> name, args |-> args, body |-> body,
     decorator_list |-> decorator_list, returns |-> returns,
     type_comment |-> type_comment, lineno |-> line, col_offset |-> col]

\* The same definition written with `async def`.
AsyncFunctionDef(fd) == [fd EXCEPT !.k = "AsyncFunctionDef"]

\* ClassDef(identifier name, expr* bases, keyword* keywords, stmt* body,
\*          expr* decorator_list)
ClassDef(name, bases, keywords, body, decorator_list, line, col) ==
    [k |-> "ClassDef", name |-> name, bases |-> bases, keywords |-> keywords,
     body |-> body, decorator_list |-> decorator_list,
     lineno |-> line, col_offset |-> col]

Pass(line, col) == [k |-> "Pass", lineno |-> line, col_offset |-> col]

Expr(value, line, col) ==
    [k |-> "Expr", value |-> value, lineno |-> line, col_offset |-> col]

Return(value, line, col) ==
    [k |-> "Return", value |-> value, lineno |-> line, col_offset |-> col]

\* Assign(expr* targets, expr? value, string? type_comment, expr? annotation)
Assign(targets, value, type_comment, line, col) ==
    [k |-> "Assign", targets |-> targets, value |-> value,
     type_comment |-> type_comment, lineno |-> line, col_offset |-> col]

\* For(expr target, expr iter, stmt* body, stmt* orelse, string? type_comment)
For(target, iter, body, orelse, type_comment, line, col) ==
    [k |-> "For", target |-> target, iter |-> iter, body |-> body,
     orelse |-> orelse, type_comment |-> type_comment,
     lineno |-> line, col_offset |-> col]

\* withitem(expr context_expr, expr? optional_vars)
withitem(context_expr, optional_vars) ==
    [k |-> "withitem", context_expr |-> context_expr,
     optional_vars |-> optional_vars]

\* With(withitem* items, stmt* body, string? type_comment)
With(items, body, type_comment, line, col) ==
    [k |-> "With", items |-> items, body |-> body,
     type_comment |-> type_comment, lineno |-> line, col_offset |-> col]

Module(body) == [k |-> "Module", body |-> body, type_ignores |-> <<>>]

(***************************************************************************)
(* ---- ASTConverter: parameters (lines 454-510) ----                      *)
(* The state of a converter is st = [errors, class_nesting, imports,       *)
(* options]; an operation returns its value and the state after it.        *)
(***************************************************************************)
\* ASTConverter.__init__ (165-177)
ASTConverter(opts, errs) ==
    [errors |-> errs, class_nesting |-> 0, imports |-> <<>>, options |-> opts]

\* ASTConverter.fail (182-183)
AC_fail(st, msg, line, column) ==
    [st EXCEPT !.errors = Append(@, Blocker(line, column, msg))]

\* ASTConverter.note (179-180)
AC_note(st, msg, line, column) ==
    [st EXCEPT !.errors = Append(@, Note(line, column, msg))]

\* mypy.messages.DUPLICATE_TYPE_SIGNATURES
DUPLICATE_TYPE_SIGNATURES == <<"Function has duplicate type signatures">>

\* Argument(Var(name), type_annotation, initializer, kind)
Argument(name, type_annotation, initializer, kind) ==
    Node("Argument", [variable |-> Node("Var", [name |-> name]),
                      type_annotation |-> type_annotation,
                      initializer |-> initializer, kind |-> kind])

\* The converter's state with the sink as a type evaluation left it.
WithErrors(st, r) == [t |-> r.t, st |-> [st EXCEPT !.errors = r.errors]]

\* A slip: the type comment is looked at first.
arg_type_of_CommentFirst(a, st) ==
    IF a.type_comment # PyNone
    THEN WithErrors(st, parse_type_comment(a.type_comment.s, a.lineno, st.errors))
    ELSE IF a.annotation # PyNone
    THEN WithErrors(st, TypeAndErrors(
            TC_visit(a.annotation, TypeConverter(st.errors, a.lineno))))
    ELSE [t |-> PyNone, st |-> st]

\* Lines 502-506 of make_argument: arg_type, from the annotation or else
\* from the type comment.
arg_type_of(a, st) ==
    IF a.annotation # PyNone
    THEN WithErrors(st, TypeAndErrors(
            TC_visit(a.annotation, TypeConverter(st.errors, a.lineno))))
    ELSE IF a.type_comment # PyNone
    THEN WithErrors(st, parse_type_comment(a.type_comment.s, a.lineno, st.errors))
    ELSE [t |-> PyNone, st |-> st]

\* Lines 497-506 of make_argument: arg_type and the state after it.
make_argument_type(a, no_type_check, st) ==
    IF no_type_check THEN [t |-> PyNone, st |-> st]
    ELSE arg_type_of(a,
            IF a.annotation # PyNone /\ a.type_comment # PyNone
            THEN AC_fail(st, DUPLICATE_TYPE_SIGNATURES, a.lineno, a.col_offset)
            ELSE st)

\* Line 507 of make_argument, r being arg_type and the state.
make_argument_node(a, default, kind, r) ==
    [a |-> Argument(a.arg, r.t, AC_expr(default), kind), st |-> r.st]

\* ASTConverter.make_argument (495-507)
make_argument(a, default, kind, no_type_check, st) ==
    make_argument_node(a, default, kind, make_argument_type(a, no_type_check, st))

\* new_args and the state after one more make_argument.
AppendArgument(r, one) == [args |-> Append(r.args, one.a), st |-> one.st]

RECURSIVE make_arguments(_, _, _, _)
\* make_argument on each (arg, default, kind) of todo from the j-th on, each
\* appended to r.args: the loops of transform_args.
make_arguments(todo, j, no_type_check, r) ==
    IF j > Len(todo) THEN r
    ELSE make_arguments(todo, j + 1, no_type_check,
            AppendArgument(r, make_argument(todo[j].a, todo[j].d, todo[j].kind,
                                            no_type_check, r.st)))

RECURSIVE check_arg_names(_, _, _)
\* mypy.nodes.check_arg_names(names, nodes, fail): a name already seen
\* among the earlier ones is reported on its node through fail_arg (509-510).
check_arg_names(names, j, st) ==
    IF j > Len(names) THEN st
    ELSE check_arg_names(names, j + 1,
            IF \E h \in 1..(j - 1) : names[h].arg = names[j].arg
            THEN AC_fail(st, <<"Duplicate argument '{}' in {}", names[j].arg,
                               "function definition">>,
                         names[j].lineno, names[j].col_offset)
            ELSE st)

\* A slip: every positional parameter after the first len(defaults) is taken
\* as one with a default.
num_no_defaults_FromFront(args) == Len(args.defaults)

\* num_no_defaults of transform_args (461)
num_no_defaults(args) == Len(args.args) - Len(args.defaults)

\* zip(a, b) of two Python lists, as the lengths it pairs up.
ZipLen(a, b) == IF Len(a) <= Len(b) THEN Len(a) ELSE Len(b)

\* The parameters of `args` in the order transform_args (463-489) takes
\* them, each with its default and its kind.  The parser never gives more
\* defaults than positional parameters, so the slices are plain.
transform_order(args) ==
    LET nnd == num_no_defaults(args)
        rest == SubSeq(args.args, nnd + 1, Len(args.args))
    IN  [j \in 1..nnd |-> [a |-> args.args[j], d |-> PyNone, kind |-> "ARG_POS"]]
        \o [j \in 1..ZipLen(rest, args.defaults) |->
                [a |-> rest[j], d |-> args.defaults[j], kind |-> "ARG_OPT"]]
        \o (IF args.vararg # PyNone
            THEN <<[a |-> args.vararg, d |-> PyNone, kind |-> "ARG_STAR"]>>
            ELSE <<>>)
        \o [j \in 1..ZipLen(args.kwonlyargs, args.kw_defaults) |->
                [a |-> args.kwonlyargs[j], d |-> args.kw_defaults[j],
                 kind |-> IF args.kw_defaults[j] = PyNone
                          THEN "ARG_NAMED" ELSE "ARG_NAMED_OPT"]]
        \o (IF args.kwarg # PyNone
            THEN <<[a |-> args.kwarg, d |-> PyNone, kind |-> "ARG_STAR2"]>>
            ELSE <<>>)

\* Line 491 of transform_args, r being new_args and the state.
transform_args_checked(todo, r) ==
    [args |-> r.args,
     st |-> check_arg_names([j \in 1..Len(todo) |-> todo[j].a], 1, r.st)]

\* ASTConverter.transform_args (454-493)
transform_args(args, line, no_type_check, st) ==
    transform_args_checked(
        transform_order(args),
        make_arguments(transform_order(args), 1, no_type_check,
                       [args |-> <<>>, st |-> st]))

(***************************************************************************)
(* ---- ASTConverter: functions, classes, statements (lines 260-727) ----  *)
(***************************************************************************)
\* is_no_type_check_decorator (155-161)
is_no_type_check_decorator(expr) ==
    IF expr.k = "Name" THEN expr.id = "no_type_check"
    ELSE IF expr.k = "Attribute" /\ expr.value.k = "Name"
    THEN expr.value.id = "typing" /\ expr.attr = "no_type_check"
    ELSE FALSE

\* mypy.sharedparse.argument_elide_name: names that start with two
\* underscores (the model spells them with the prefix "__").
argument_elide_name(name) == name \in {"__x", "__y"}

\* mypy.sharedparse.special_function_elide_names: the special methods whose
\* parameters are positional only.
special_function_elide_names(name) == name \in {"__eq__", "__add__"}

\* The texts mode 'func_type' of the parser accepts, by their trees.
CommentArgExprs == {Name("int", 0), Ellipsis(0)}

CommentReturnExprs == {Name("bool", 0)}

\* types in a whole-signature type comment
MaxCommentArgs == 4

ParsableFuncTypes ==
    {FunctionType(a, r) :
        a \in SeqsUpTo(CommentArgExprs, MaxCommentArgs), r \in CommentReturnExprs}

\* The tree of each text that mode 'func_type' accepts.
FuncTypeOfText ==
    [t \in {UnparseFuncType(ft) : ft \in ParsableFuncTypes} |->
        CHOOSE ft \in ParsableFuncTypes : UnparseFuncType(ft) = t]

\* ast3.parse(text, '<func_type>', 'func_type'): a FunctionType or a
\* SyntaxError.
ast3_parse_func_type(text) ==
    IF text \in DOMAIN FuncTypeOfText
    THEN [ok |-> TRUE, ft |-> FuncTypeOfText[text]]
    ELSE [ok |-> FALSE]

\* CallableType(arg_types, arg_kinds, arg_names, ret_type, _dummy_fallback);
\* its definition, a reference back to the function, is left out.
CallableType(arg_types, arg_kinds, arg_names, ret_type) ==
    [k |-> "CallableType", arg_types |-> arg_types, arg_kinds |-> arg_kinds,
     arg_names |-> arg_names, ret_type |-> ret_type, line |-> NoLine]

\* ASTConverter.in_class (302-303)
in_class(st) == st.class_nesting > 0

\* A slip: the option no_implicit_optional is not looked at.
set_type_optional_IgnoreOption(type, initializer, st) ==
    IF type.k = "UnboundType"
    THEN [type EXCEPT !.optional =
            (initializer.k = "NameExpr" /\ initializer.name = "None")]
    ELSE type

\* ASTConverter.set_type_optional (446-452): the type after the call.
set_type_optional(type, initializer, st) ==
    IF st.options.no_implicit_optional THEN type
    ELSE IF type.k = "UnboundType"
    THEN [type EXCEPT !.optional =
            (initializer.k = "NameExpr" /\ initializer.name = "None")]
    ELSE type

\* [a if a is not None else AnyType(TypeOfAny.unannotated) for a in l]
OrUnannotated(l) ==
    [j \in 1..Len(l) |-> IF l[j] # PyNone THEN l[j] ELSE AnyType("unannotated")]

\* A slip: the return type of the signature is taken from the annotation
\* when the function has one.
comment_return_type_AnnotationWins(n, func_type_ast, errs) ==
    IF n.returns # PyNone
    THEN TC_visit(n.returns, TypeConverter(errs, n.returns.lineno))
    ELSE TC_visit(func_type_ast.returns, TypeConverter(errs, n.lineno))

\* Lines 382-383: the return type of a function with a type comment.
comment_return_type(n, func_type_ast, errs) ==
    TC_visit(func_type_ast.returns, TypeConverter(errs, n.lineno))

\* A slip: the receiver's type is never added.
implicit_self_type_Never(arg_types, args, st) == arg_types

\* A slip: the implicit self type is added only to a comment one short.
implicit_self_type_OneShort(arg_types, args, st) ==
    IF in_class(st) /\ Len(arg_types) = Len(args) - 1
    THEN <<AnyType("special_form")>> \o arg_types
    ELSE arg_types

\* Lines 385-387: add implicit self type.
implicit_self_type(arg_types, args, st) ==
    IF in_class(st) /\ Len(arg_types) < Len(args)
    THEN <<AnyType("special_form")>> \o arg_types
    ELSE arg_types

\* arg_types, return_type and the state once the return type rt has been
\* evaluated.  `shared` tells that arg_types[j] is the very object
\* args[j].type_annotation.
signature_of(arg_types, shared, st, rt) ==
    [arg_types |-> arg_types, return_type |-> rt.t, shared |-> shared,
     st |-> [st EXCEPT !.errors = rt.errors]]

\* Lines 382-387: the return type and the implicit self type, ca being the
\* argument types of lines 365-381 and the sink after them.
comment_signature(n, args, ft, st, ca) ==
    signature_of(implicit_self_type(ca.t, args, st),
                 Len(ft.argtypes) = 1 /\ ft.argtypes[1].k = "Ellipsis",
                 st,
                 TypeAndErrors(comment_return_type(n, ft, ca.errors)))

\* The translated types of a comment, as a value of the shape [t, errors].
TypesAndErrors(r) == [t |-> OrUnannotated(r.ts), errors |-> r.st.errors]

\* A slip: the ellipsis gives every parameter the unannotated Any.
comment_arg_types_IgnoreAnnotations(n, args, ft, st) ==
    IF Len(ft.argtypes) = 1 /\ ft.argtypes[1].k = "Ellipsis"
    THEN [t |-> [j \in 1..Len(args) |-> AnyType("unannotated")],
          errors |-> st.errors]
    ELSE TypesAndErrors(
            TC_translate_expr_list(ft.argtypes, TypeConverter(st.errors, n.lineno)))

\* Lines 365-381: arg_types of a function whose type comment parsed to ft,
\* st being the state after the duplicate-signature check.
comment_arg_types(n, args, ft, st) ==
    IF Len(ft.argtypes) = 1 /\ ft.argtypes[1].k = "Ellipsis"
    THEN [t |-> OrUnannotated([j \in 1..Len(args) |-> args[j].type_annotation]),
          errors |-> st.errors]
    ELSE TypesAndErrors(
            TC_translate_expr_list(ft.argtypes, TypeConverter(st.errors, n.lineno)))

\* Lines 365-387 on a comment that parsed, with the duplicate-signature
\* checks of lines 367-369 and 376-377.
parsed_comment_signature(n, args, ft, st) ==
    comment_signature(n, args, ft, st, comment_arg_types(n, args, ft, st))

\* A slip: the suggestion is made whatever the comment starts with.
comment_syntax_error_AlwaysNote(n, args, st) ==
    [arg_types |-> [j \in 1..Len(args) |-> AnyType("from_error")],
     return_type |-> AnyType("from_error"),
     shared |-> FALSE,
     st |-> AC_note(st, <<"Suggestion: wrap argument types in parentheses">>,
                    n.lineno, n.col_offset)]

\* Lines 388-394: the type comment is not a function type.
comment_syntax_error(n, args, st) ==
    [arg_types |-> [j \in 1..Len(args) |-> AnyType("from_error")],
     return_type |-> AnyType("from_error"),
     shared |-> FALSE,
     st |-> IF n.type_comment.s # <<>> /\ n.type_comment.s[1] # "("
            THEN AC_note(st, <<"Suggestion: wrap argument types in parentheses">>,
                         n.lineno, n.col_offset)
            ELSE st]

\* Lines 356-398 of do_func_def: arg_types and return_type.
func_signature(n, args, no_type_check, st) ==
    IF no_type_check
    THEN [arg_types |-> [j \in 1..Len(args) |-> PyNone], return_type |-> PyNone,
          shared |-> FALSE, st |-> st]
    ELSE IF n.type_comment # PyNone
    THEN IF ~ast3_parse_func_type(n.type_comment.s).ok
         THEN comment_syntax_error(n, args,
                AC_fail(st, TYPE_COMMENT_SYNTAX_ERROR, n.lineno, n.col_offset))
         ELSE parsed_comment_signature(n, args,
                ast3_parse_func_type(n.type_comment.s).ft,
                IF \/ n.returns # PyNone
                   \/ /\ ~(/\ Len(ast3_parse_func_type(n.type_comment.s).ft.argtypes) = 1
                            /\ ast3_parse_func_type(n.type_comment.s).ft.argtypes[1].k
                                    = "Ellipsis")
                      /\ \E j \in 1..Len(args) : args[j].type_annotation # PyNone
                THEN AC_fail(st, DUPLICATE_TYPE_SIGNATURES, n.lineno, n.col_offset)
                ELSE st)
    ELSE signature_of([j \in 1..Len(args) |-> args[j].type_annotation], TRUE, st,
            TypeAndErrors(
                TC_visit(n.returns,
                         TypeConverter(st.errors,
                            IF n.returns # PyNone THEN n.returns.lineno
                            ELSE n.lineno))))

\* Lines 403-419 of do_func_def: func_type.
func_type_of(n, arg_types, arg_kinds, arg_names, return_type, st) ==
    IF (\E j \in 1..Len(arg_types) : arg_types[j] # PyNone) \/ return_type # PyNone
    THEN IF Len(arg_types) # 1
            /\ \E j \in 1..Len(arg_types) : arg_types[j].k = "EllipsisType"
         THEN [func_type |-> PyNone,
               st |-> AC_fail(st, <<"Ellipses cannot accompany other argument types in function type signature.">>,
                              n.lineno, 0)]
         ELSE IF Len(arg_types) > Len(arg_kinds)
         THEN [func_type |-> PyNone,
               st |-> AC_fail(st, <<"Type signature has too many arguments">>,
                              n.lineno, 0)]
         ELSE IF Len(arg_types) < Len(arg_kinds)
         THEN [func_type |-> PyNone,
               st |-> AC_fail(st, <<"Type signature has too few arguments">>,
                              n.lineno, 0)]
         ELSE [func_type |->
                  CallableType(OrUnannotated(arg_types), arg_kinds, arg_names,
                               IF return_type # PyNone THEN return_type
                               ELSE AnyType("unannotated")),
               st |-> st]
    ELSE [func_type |-> PyNone, st |-> st]

\* Lines 400-401 of do_func_def: arg_types after set_type_optional.
optional_arg_types(args, sig) ==
    [j \in 1..Len(sig.arg_types) |->
        IF j <= Len(args)
        THEN set_type_optional(sig.arg_types[j], args[j].initializer, sig.st)
        ELSE sig.arg_types[j]]

\* The arguments after lines 400-401: set_type_optional writes into the
\* annotation's own object where arg_types holds that object.
optional_args(args, sig) ==
    [j \in 1..Len(args) |->
        IF sig.shared /\ args[j].type_annotation # PyNone
        THEN [args[j] EXCEPT !.type_annotation =
                set_type_optional(sig.arg_types[j], args[j].initializer, sig.st)]
        ELSE args[j]]

\* Lines 351-355 of do_func_def: arg_kinds and arg_names.
arg_kinds_of(args) == [j \in 1..Len(args) |-> args[j].kind]

arg_names_of(n, args) ==
    [j \in 1..Len(args) |->
        IF special_function_elide_names(n.name)
            \/ argument_elide_name(args[j].variable.name)
        THEN NoneStr ELSE args[j].variable.name]

\* Lines 434-444 of do_func_def: the node returned for func_def.
decorated(n, func_def) ==
    IF n.decorator_list # <<>>
    THEN Node("Decorator",
              [name |-> n.name,
               func |-> [set_line_int(func_def, n.lineno + Len(n.decorator_list))
                            EXCEPT !.is_decorated = TRUE,
                                   !.body = set_line_int(@, n.lineno
                                                + Len(n.decorator_list))],
               decorators |-> AC_expr_list(n.decorator_list),
               var |-> set_line_int(
                          Node("Var", [name |-> n.name, is_ready |-> FALSE]),
                          n.decorator_list[1].lineno)])
    ELSE func_def

\* Lines 421-444 of do_func_def, ft being func_type and the state after
\* lines 403-419 and body the converted block and the state after it.
func_def_node(n, is_coroutine, args, ft, body) ==
    [node |->
        decorated(n,
            Node("FuncDef",
                 [name |-> n.name, arguments |-> args, body |-> body.node,
                  type |-> IF ft.func_type # PyNone
                           THEN [ft.func_type EXCEPT !.line = n.lineno]
                           ELSE PyNone,
                  unanalyzed_type |-> ft.func_type,
                  is_coroutine |-> is_coroutine, is_decorated |-> FALSE])),
     st |-> body.st]

RECURSIVE AC_stmt(_, _), AC_translate_stmt_list(_, _, _),
          AC_as_required_block(_, _, _), do_func_def(_, _, _),
          func_def_typed(_, _, _, _), func_def_signed(_, _, _, _),
          func_def_args(_, _, _, _), AC_as_block(_, _, _)

\* One more statement converted: its node appended, the state after it.
AppendStmt(r, one) == [nodes |-> Append(r.nodes, one.node), st |-> one.st]

\* ASTConverter.translate_stmt_list (209-215), from the j-th statement on,
\* r being the nodes so far and the state.
AC_translate_stmt_list(l, j, r) ==
    IF j > Len(l) THEN r
    ELSE AC_translate_stmt_list(l, j + 1, AppendStmt(r, AC_stmt(l[j], r.st)))

\* Block(self.fix_function_overloads(...)) and b.set_line(lineno)
BlockOf(r, lineno) ==
    [node |-> set_line_int(Node("Block", [body |-> fix_function_overloads(r.nodes)]),
                           lineno),
     st |-> r.st]

\* ASTConverter.as_required_block (267-271)
AC_as_required_block(l, lineno, st) ==
    BlockOf(AC_translate_stmt_list(l, 1, [nodes |-> <<>>, st |-> st]), lineno)

\* ASTConverter.as_block (260-265)
AC_as_block(l, lineno, st) ==
    IF l = <<>> THEN [node |-> PyNone, st |-> st]
    ELSE BlockOf(AC_translate_stmt_list(l, 1, [nodes |-> <<>>, st |-> st]), lineno)

\* The type of a statement's type comment (552-555, 580-583, 622-625), as
\* the type and the sink's content after it.
comment_type(n, st) ==
    IF n.type_comment # PyNone
    THEN parse_type_comment(n.type_comment.s, n.lineno, st.errors)
    ELSE [t |-> PyNone, errors |-> st.errors]

\* Lines 556-557 of visit_Assign, typ being the type and the sink.
assignment_stmt(n, st, typ) ==
    [node |-> set_line(Node("AssignmentStmt",
                            [lvalues |-> AC_expr_list(n.targets),
                             rvalue |-> AC_expr(n.value),
                             type |-> typ.t, new_syntax |-> FALSE]), n),
     st |-> [st EXCEPT !.errors = typ.errors]]

\* ASTConverter.visit_Assign (549-557)
AC_visit_Assign(n, st) == assignment_stmt(n, st, comment_type(n, st))

\* Lines 584-589 of visit_For, body and orelse being the converted blocks.
for_stmt(n, typ, body, orelse) ==
    [node |-> set_line(Node("ForStmt",
                            [index |-> AC_expr(n.target), expr |-> AC_expr(n.iter),
                             body |-> body.node, else_body |-> orelse.node,
                             index_type |-> typ.t]), n),
     st |-> orelse.st]

\* Line 587 of visit_For
for_orelse(n, typ, body) ==
    for_stmt(n, typ, body, AC_as_block(n.orelse, n.lineno, body.st))

\* Line 586 of visit_For
for_body(n, st, typ) ==
    for_orelse(n, typ,
               AC_as_required_block(n.body, n.lineno,
                                    [st EXCEPT !.errors = typ.errors]))

\* ASTConverter.visit_For (579-589)
AC_visit_For(n, st) == for_body(n, st, comment_type(n, st))

\* Lines 626-630 of visit_With, body being the converted block.
with_stmt(n, typ, body) ==
    [node |-> set_line(Node("WithStmt",
                            [expr |-> [j \in 1..Len(n.items) |->
                                          AC_expr(n.items[j].context_expr)],
                             target |-> [j \in 1..Len(n.items) |->
                                          AC_expr(n.items[j].optional_vars)],
                             body |-> body.node, target_type |-> typ.t]), n),
     st |-> body.st]

\* Line 628 of visit_With
with_body(n, st, typ) ==
    with_stmt(n, typ,
              AC_as_required_block(n.body, n.lineno,
                                   [st EXCEPT !.errors = typ.errors]))

\* ASTConverter.visit_With (621-630)
AC_visit_With(n, st) == with_body(n, st, comment_type(n, st))

\* Lines 421-444 of do_func_def, ft being func_type and the state.
func_def_typed(n, is_coroutine, args, ft) ==
    func_def_node(n, is_coroutine, args, ft,
                  AC_as_required_block(n.body, n.lineno, ft.st))

\* Lines 400-444 of do_func_def, sig being arg_types, return_type and the
\* state after lines 356-398.
func_def_signed(n, is_coroutine, args, sig) ==
    func_def_typed(n, is_coroutine, optional_args(args, sig),
        func_type_of(n, optional_arg_types(args, sig), arg_kinds_of(args),
                     arg_names_of(n, args), sig.return_type, sig.st))

\* Lines 351-444 of do_func_def, ta being the arguments and the state after
\* transform_args.
func_def_args(n, is_coroutine, no_type_check, ta) ==
    func_def_signed(n, is_coroutine, ta.args,
                    func_signature(n, ta.args, no_type_check, ta.st))

\* A slip: only the first decorator is looked at.
no_type_check_of_FirstOnly(n) ==
    /\ n.decorator_list # <<>>
    /\ is_no_type_check_decorator(n.decorator_list[1])

\* Lines 346-347 of do_func_def
no_type_check_of(n) ==
    /\ n.decorator_list # <<>>
    /\ \E j \in 1..Len(n.decorator_list) :
            is_no_type_check_decorator(n.decorator_list[j])

\* ASTConverter.do_func_def (343-444)
do_func_def(n, is_coroutine, st) ==
    func_def_args(n, is_coroutine, no_type_check_of(n),
                  transform_args(n.args, n.lineno, no_type_check_of(n), st))

\* dict(keywords).get('metaclass') (526)
metaclass_of(keywords) ==
    IF \E j \in 1..Len(keywords) : keywords[j][1] = "metaclass"
    THEN keywords[CHOOSE j \in 1..Len(keywords) :
                    /\ keywords[j][1] = "metaclass"
                    /\ \A h \in (j + 1)..Len(keywords) :
                            keywords[h][1] # "metaclass"][2]
    ELSE PyNone

\* keywords of visit_ClassDef (519-520)
class_keywords(n) ==
    LET kws == SelectSeq(n.keywords, LAMBDA kw : kw.arg # NoneStr) IN
    [j \in 1..Len(kws) |-> <<kws[j].arg, AC_expr(kws[j].value)>>]

\* Lines 522-531 of visit_ClassDef, body being the converted block and the
\* state after it.
class_def_node(n, body) ==
    [node |->
        set_line(Node("ClassDef",
                      [name |-> n.name, defs |-> body.node,
                       base_type_exprs |-> AC_expr_list(n.bases),
                       metaclass |-> metaclass_of(class_keywords(n)),
                       keywords |-> class_keywords(n),
                       decorators |-> AC_expr_list(n.decorator_list)]), n),
     st |-> [body.st EXCEPT !.class_nesting = @ - 1]]

\* ASTConverter.visit_ClassDef (517-531)
AC_visit_ClassDef(n, st) ==
    class_def_node(n,
        AC_as_required_block(n.body, n.lineno,
                             [st EXCEPT !.class_nesting = @ + 1]))

\* node.set_line(n.lineno, n.col_offset) on what do_func_def returned.
Positioned(r, n) ==
    [node |-> set_line_col(r.node, n.lineno, n.col_offset), st |-> r.st]

\* ASTConverter.set_line (196-199) on what do_func_def returned.
PositionedAt(r, n) == [node |-> set_line(r.node, n), st |-> r.st]

\* ASTConverter.visit (185-194) on a statement, with the visit_X methods it
\* dispatches to.
AC_stmt(n, st) ==
    CASE n.k = "FunctionDef" ->
            \* visit_FunctionDef (332-335)
            Positioned(do_func_def(n, FALSE, st), n)
      [] n.k = "AsyncFunctionDef" ->
            \* visit_AsyncFunctionDef (339-341)
            PositionedAt(do_func_def(n, TRUE, st), n)
      [] n.k = "ClassDef" -> AC_visit_ClassDef(n, st)
      [] n.k = "Assign" -> AC_visit_Assign(n, st)
      [] n.k = "For" -> AC_visit_For(n, st)
      [] n.k = "With" -> AC_visit_With(n, st)
      [] n.k = "Return" ->
            [node |-> set_line(Node("ReturnStmt", [expr |-> AC_expr(n.value)]), n),
             st |-> st]
      [] n.k = "Expr" ->
            [node |-> set_line(Node("ExpressionStmt", [expr |-> AC_expr(n.value)]), n),
             st |-> st]
      [] n.k = "Pass" -> [node |-> set_line(Node("PassStmt", [a |-> 0]), n), st |-> st]

\* MypyFile(body, self.imports, False, ...) of visit_Module (321-325)
MypyFileOf(r) ==
    [node |-> Node("MypyFile",
                   [defs |-> fix_function_overloads(r.nodes),
                    imports |-> r.st.imports, is_bom |-> FALSE,
                    ignored_lines |-> {}]),
     st |-> r.st]

\* ASTConverter.visit_Module (318-325)
AC_visit_Module(mod, st) ==
    MypyFileOf(AC_translate_stmt_list(mod.body, 1, [nodes |-> <<>>, st |-> st]))

(***************************************************************************)
(* ---- One evaluation of a type expression (SpecTypes) ----               *)
(***************************************************************************)
\* The line the converter is created with (n.lineno of the owning statement).
TypeLine == 7

AtCols(l) == [j \in 1..Len(l) |-> [l[j] EXCEPT !.col_offset = j]]

TypeAtoms ==
    {Name("int", 0), NameConstant("None", 0), Ellipsis(0), Num("1", 0),
     Str(<<"int">>, 0),
     Subscript(Name("List", 0), Index(Name("int", 0)), 0)}

TypeEltLists == {AtCols(l) : l \in SeqsUpTo(TypeAtoms, MaxElts)}

SubscriptBases ==
    {Name("List", 0), Name("Tuple", 0), Attribute(Name("typing", 0), "Tuple", 0),
     Subscript(Name("Dict", 0), Index(Name("str", 0)), 0), Num("1", 0)}

SubscriptSlices ==
    {Index(a) : a \in TypeAtoms}
        \cup {Index(Tuple(l, 0)) : l \in TypeEltLists}
        \cup {Slice(PyNone, PyNone, PyNone)}

PlainTypeExprs ==
    TypeAtoms
        \cup {Subscript(b, sl, 0) : b \in SubscriptBases, sl \in SubscriptSlices}
        \cup {Tuple(l, 0) : l \in TypeEltLists}
        \cup {List(l, 0) : l \in TypeEltLists}

\* Constructor calls: Arg(int, ' x ', ...), with or without keywords.
CallFuncs == {Name("Arg", 0), Attribute(Name("ext", 0), "Arg", 0), Num("1", 0)}

CallArgAtoms ==
    {Name("int", 0), Str(<<"x">>, 0), Str(<<" ", "x", " ">>, 0),
     NameConstant("None", 0)}

CallKeywords ==
    {keyword("name", Str(<<"y">>, 0)), keyword("type", Name("str", 0)),
     keyword("kind", Name("int", 0))}

\* The parser rejects a repeated keyword, so the names of a list are distinct.
KeywordLists ==
    {kws \in SeqsUpTo(CallKeywords, MaxKeywords) :
        \A a, b \in 1..Len(kws) : a # b => kws[a].arg # kws[b].arg}

CallExprs ==
    {Call(f, AtCols(a), kws, 1) :
        f \in CallFuncs,
        a \in SeqsUpTo(CallArgAtoms, MaxCallArgs),
        kws \in KeywordLists}

\* A call in each place a type expression lets it stand.
CallContext(c, m) ==
    CASE m = 1 -> c
      [] m = 2 -> List(<<c>>, 0)
      [] m = 3 -> List(<<Name("int", 0), c, Name("str", 2)>>, 0)
      [] m = 4 -> Tuple(<<c>>, 0)
      [] m = 5 -> Subscript(Name("Callable", 0),
                            Index(Tuple(<<List(<<c>>, 0), Name("int", 0)>>, 0)), 0)
      [] m = 6 -> Subscript(Name("List", 0), Index(c), 0)
      [] m = 7 -> Subscript(Name("Dict", 0),
                            Index(Tuple(<<c, Name("int", 2)>>, 0)), 0)

\* A bracketed list of one string literal, for every text that parses.
QuotedInList == {List(<<Str(Unparse(n), 1)>>, 0) : n \in ParsableExprs}

TypeExprInputs ==
    PlainTypeExprs \cup {CallContext(c, m) : c \in CallExprs, m \in 1..7}
        \cup QuotedInList

\* The argument lists of function type comments that hold a call without
\* keywords.
ArgTypesInputs ==
    {<<c>> : c \in {d \in CallExprs : d.keywords = <<>>}}
        \cup {<<Name("int", 0), c>> : c \in {d \in CallExprs : d.keywords = <<>>}}

TypeTextInputs == {Unparse(n) : n \in ParsableExprs} \cup BadTexts

TypeInit ==
    /\ OverloadIdle
    /\ ConvIdle
    /\ ParseIdle
    /\ WalkIdle
    /\ t_input \in {[k |-> "node", node |-> n] : n \in TypeExprInputs}
                    \cup {[k |-> "text", text |-> t] : t \in TypeTextInputs}
                    \cup {[k |-> "argtypes", l |-> a] : a \in ArgTypesInputs}
    /\ t_result = PyNone
    /\ t_errors = <<>>
    /\ t_stack = <<>>
    /\ t_pc = "call"

\* TypeConverter(self.errors, line=...).visit(annotation) (lines 504, 565).
VisitAnnotation ==
    /\ t_pc = "call"
    /\ t_input.k = "node"
    /\ LET r == TC_visit(t_input.node, TypeConverter(<<>>, TypeLine)) IN
        /\ t_result' = r.t
        /\ t_errors' = r.st.errors
        /\ t_stack' = r.st.node_stack
    /\ t_pc' = "done"
    /\ UNCHANGED <<t_input, overloadVars, convVars, parseVars, walkVars>>

\* parse_type_comment(n.type_comment, n.lineno, self.errors) (lines 553, 581).
ParseTypeComment ==
    /\ t_pc = "call"
    /\ t_input.k = "text"
    /\ LET r == parse_type_comment(t_input.text, TypeLine, <<>>) IN
        /\ t_result' = r.t
        /\ t_errors' = r.errors
    /\ t_stack' = <<>>
    /\ t_pc' = "done"
    /\ UNCHANGED <<t_input, overloadVars, convVars, parseVars, walkVars>>

\* TypeConverter(self.errors, line=n.lineno).translate_expr_list(
\* func_type_ast.argtypes) (lines 378-379).
TranslateArgTypes ==
    /\ t_pc = "call"
    /\ t_input.k = "argtypes"
    /\ \E r \in {TC_translate_expr_list(t_input.l, TypeConverter(<<>>, TypeLine))} :
        /\ t_result' = r.ts
        /\ t_errors' = r.st.errors
        /\ t_stack' = r.st.node_stack
    /\ t_pc' = "done"
    /\ UNCHANGED <<t_input, overloadVars, convVars, parseVars, walkVars>>

TypeNext == VisitAnnotation \/ ParseTypeComment \/ TranslateArgTypes

SpecTypes == TypeInit /\ [][TypeNext]_vars

(***************************************************************************)
(* ---- One call of transform_args (SpecArgs) ----                         *)
(***************************************************************************)
\* The line of the definition whose parameters are converted.
DefLine == 5

\* The j-th parameter in source order is named p<j> and stands at column j.
ParamName(j) == "p" \o ToString(j)

\* What a parameter may carry as its annotation and as its type comment.
ParamAnnotations == {PyNone, Name("int", 0)}

ParamTypeComments == {PyNone, PyStr(<<"str">>), PyStr(<<"int", "->">>)}

\* The defaults a run of defaulted parameters is given.
DefaultExprs == {Num("1", 0), NameConstant("None", 0)}

\* Parameter structures as the parser builds them: np positional parameters
\* of which the last nd have the default dflt, an optional *args, keyword-only
\* parameters of which kwd tells the defaulted ones, an optional **kwargs
\* (named kwname); the first parameter carries ann and tc.
ArgsOf(np, nd, dflt, va, kwd, kwname, ann, tc) ==
    LET all == np + (IF va THEN 1 ELSE 0) + Len(kwd)
        mk(j, name) == arg(name, IF j = 1 THEN ann ELSE PyNone,
                           IF j = 1 THEN tc ELSE PyNone, DefLine, j)
    IN  arguments(
            [j \in 1..np |-> mk(j, ParamName(j))],
            IF va THEN mk(np + 1, "args") ELSE PyNone,
            [j \in 1..Len(kwd) |->
                mk(np + (IF va THEN 1 ELSE 0) + j,
                   ParamName(np + (IF va THEN 1 ELSE 0) + j))],
            [j \in 1..Len(kwd) |-> IF kwd[j] THEN dflt ELSE PyNone],
            IF kwname = NoneStr THEN PyNone ELSE mk(all + 1, kwname),
            [j \in 1..nd |-> dflt])

ArgsInputs ==
    {ArgsOf(np, nd, dflt, va, kwd, kwname, ann, tc) :
        np \in 0..MaxParams, nd \in 0..MaxParams, dflt \in DefaultExprs,
        va \in BOOLEAN, kwd \in SeqsUpTo(BOOLEAN, MaxKwOnly),
        kwname \in {NoneStr, "kwargs", ParamName(1)},
        ann \in ParamAnnotations, tc \in ParamTypeComments}

ArgsInit ==
    /\ OverloadIdle
    /\ TypeIdle
    /\ ParseIdle
    /\ WalkIdle
    /\ ast \in {a \in ArgsInputs : Len(a.defaults) <= Len(a.args)}
    /\ options = [no_implicit_optional |-> FALSE]
    /\ errors = <<>>
    /\ class_nesting = 0
    /\ imports = <<>>
    /\ tree = PyNone
    /\ c_pc = "call"

\* self.transform_args(n.args, n.lineno, no_type_check=...) (lines 349, 787)
TransformArgs ==
    /\ c_pc = "call"
    /\ \E no_type_check \in BOOLEAN :
        \E r \in {transform_args(ast, DefLine, no_type_check,
                                 ASTConverter(options, errors))} :
            /\ tree' = r.args
            /\ errors' = r.st.errors
    /\ c_pc' = "done"
    /\ UNCHANGED <<ast, options, class_nesting, imports, overloadVars, typeVars, parseVars,
                   walkVars>>

ArgsNext == TransformArgs

SpecArgs == ArgsInit /\ [][ArgsNext]_vars

(***************************************************************************)
(* ---- One conversion of a module (SpecModule) ----                       *)
(* The module holds one function definition, at the top level or as the    *)
(* only statement of a class.                                              *)
(***************************************************************************)
\* How the parameters of a function are annotated, and what default the
\* last one has.
AnnotationPatterns == {"none", "all"}

DefaultPatterns == {"no", "None", "1"}

DecoratorLists ==
    {<<>>,
     <<Name("deco", 1)>>,
     <<Name("no_type_check", 1)>>,
     <<Name("deco", 1), Attribute(Name("typing", 1), "no_type_check", 1)>>}

\* The decorators, each on its own line from `line` on.
DecoratorsAt(decos, line, col) ==
    [j \in 1..Len(decos) |-> At(decos[j], line + j - 1, col + 1)]

ReturnAnnotations == {PyNone, Name("str", 0)}

\* The texts of whole-signature type comments: those of the function types,
\* and three the parser rejects, the empty text among them.
FuncTypeComments ==
    {PyNone} \cup {PyStr(UnparseFuncType(ft)) : ft \in ParsableFuncTypes}
             \cup {PyStr(<<"int", "->", "bool">>), PyStr(<<"(", "int">>),
                   PyStr(<<>>)}

\* The function f with np parameters, written at column col.  The raw node
\* of a decorated function stands at the line of its first decorator.
FuncOf(np, ann, dflt, decos, returns, comment, col) ==
    LET defline == DefLine + Len(decos)
        params == [j \in 1..np |->
                     arg(ParamName(j),
                         IF ann \in {"all", "both"} \/ (ann = "mixed" /\ j <= 2)
                            \/ (ann = "first" /\ j = 1)
                         THEN At(Name("int", 0), defline, col + 10 * j + 3)
                         ELSE PyNone,
                         IF ann \in {"comment", "both"}
                            \/ (ann = "mixed" /\ j \in {1, 3})
                         THEN PyStr(<<"str">>) ELSE PyNone,
                         defline, col + 10 * j)]
        defaults == IF np = 0 \/ dflt = "no" THEN <<>>
                    ELSE IF dflt = "None"
                    THEN <<At(NameConstant("None", 0), defline, col + 10 * np + 7)>>
                    ELSE <<At(Num("1", 0), defline, col + 10 * np + 7)>>
    IN  FunctionDef("f",
                    arguments(params, PyNone, <<>>, <<>>, PyNone, defaults),
                    <<Pass(defline + 1, col + 4)>>,
                    DecoratorsAt(decos, DefLine, col),
                    IF returns = PyNone THEN PyNone
                    ELSE At(returns, defline, col + 50),
                    comment, DefLine, col)

\* Functions without defaults: every way of declaring the signature.
SignatureFuncs ==
    {FuncOf(np, ann, "no", decos, returns, comment, col) :
        np \in 0..MaxParams, ann \in AnnotationPatterns,
        decos \in DecoratorLists, returns \in ReturnAnnotations,
        comment \in FuncTypeComments, col \in {0, 4}}

\* Functions whose last parameter has a default, typed by annotations or by
\* a type comment.
DefaultFuncs ==
    {FuncOf(np, ann, dflt, <<>>, PyNone, comment, col) :
        np \in 1..MaxParams, ann \in AnnotationPatterns,
        dflt \in DefaultPatterns \ {"no"},
        comment \in {PyNone,
                     PyStr(UnparseFuncType(
                        FunctionType(<<Ellipsis(0)>>, Name("bool", 0)))),
                     PyStr(UnparseFuncType(
                        FunctionType(<<Name("int", 0)>>, Name("bool", 0))))},
        col \in {0, 4}}

\* Functions under no_type_check, their parameters typed by annotations, by
\* type comments of their own, by both or not at all.
UncheckedFuncs ==
    {FuncOf(np, ann, "no", decos, returns, comment, col) :
        np \in 0..MaxParams, ann \in AnnotationPatterns \cup {"comment", "both"},
        decos \in {d \in DecoratorLists :
                    \E j \in 1..Len(d) : is_no_type_check_decorator(d[j])},
        returns \in ReturnAnnotations,
        comment \in FuncTypeComments, col \in {0, 4}}

\* Functions without a signature comment, their parameters typed by
\* annotations, by type comments of their own, by both ("mixed": the first by
\* both, the second by an annotation, the third by a comment) or not at all.
ParamFuncs ==
    {FuncOf(np, ann, "no", decos, PyNone, PyNone, col) :
        np \in 1..MaxParams,
        ann \in AnnotationPatterns \cup {"comment", "both", "mixed"},
        decos \in DecoratorLists, col \in {0, 4}}

\* Functions whose signature comment is `(...) -> bool`, their parameters
\* typed by annotations, all or the first only, by type comments of their
\* own or not at all.
EllipsisFuncs ==
    {FuncOf(np, ann, "no", decos, returns,
            PyStr(UnparseFuncType(FunctionType(<<Ellipsis(0)>>, Name("bool", 0)))),
            0) :
        np \in 0..MaxParams, ann \in AnnotationPatterns \cup {"first", "comment"},
        decos \in DecoratorLists, returns \in ReturnAnnotations}

\* Functions written with `async def`.
AsyncFuncs ==
    {AsyncFunctionDef(fd) : fd \in {f \in SignatureFuncs : f.type_comment = PyNone}}

\* A function at column 0 stands at the top level, one at column 4 in the
\* class C.
ModuleOf(fd) ==
    IF fd.col_offset = 0 THEN Module(<<fd>>)
    ELSE Module(<<ClassDef("C", <<>>, <<>>, <<fd>>, <<>>, DefLine - 1, 0)>>)

ModuleInit ==
    /\ OverloadIdle
    /\ TypeIdle
    /\ ParseIdle
    /\ WalkIdle
    /\ \/ /\ ast \in {ModuleOf(fd) :
                        fd \in SignatureFuncs \cup AsyncFuncs
                                \cup UncheckedFuncs \cup ParamFuncs}
          /\ options = [no_implicit_optional |-> FALSE]
       \/ /\ ast \in {ModuleOf(fd) : fd \in DefaultFuncs}
          /\ options \in [no_implicit_optional : BOOLEAN]
    /\ errors = <<>>
    /\ class_nesting = 0
    /\ imports = <<>>
    /\ tree = PyNone
    /\ c_pc = "call"

\* tree = ASTConverter(options, is_stub, errors).visit(ast) (lines 117-121)
VisitModule ==
    /\ c_pc = "call"
    /\ \E r \in {AC_visit_Module(ast, ASTConverter(options, errors))} :
        /\ tree' = r.node
        /\ errors' = r.st.errors
        /\ class_nesting' = r.st.class_nesting
        /\ imports' = r.st.imports
    /\ c_pc' = "done"
    /\ UNCHANGED <<ast, options, overloadVars, typeVars, parseVars, walkVars>>

ModuleNext == VisitModule

SpecModule == ModuleInit /\ [][ModuleNext]_vars

(***************************************************************************)
(* ---- The signature of one function (SpecSignature, lines 343-398) ----  *)
(* do_func_def up to line 398 on one function, entered at every depth of   *)
(* class nesting: tree holds the local variables args, arg_types and       *)
(* return_type as they stand before line 400.                              *)
(***************************************************************************)
MaxNesting == 2

SignatureInit ==
    /\ OverloadIdle
    /\ TypeIdle
    /\ ParseIdle
    /\ WalkIdle
    /\ ast \in {fd \in SignatureFuncs : fd.col_offset = 0} \cup EllipsisFuncs
    /\ options = [no_implicit_optional |-> FALSE]
    /\ errors = <<>>
    /\ class_nesting \in 0..MaxNesting
    /\ imports = <<>>
    /\ tree = PyNone
    /\ c_pc = "call"

\* Lines 346-398 of do_func_def
FuncSignature ==
    /\ c_pc = "call"
    /\ \E ta \in {transform_args(ast.args, ast.lineno, no_type_check_of(ast),
                                 [ASTConverter(options, errors)
                                    EXCEPT !.class_nesting = class_nesting])} :
         \E sig \in {func_signature(ast, ta.args, no_type_check_of(ast), ta.st)} :
            /\ tree' = [args |-> ta.args, arg_types |-> sig.arg_types,
                        return_type |-> sig.return_type]
            /\ errors' = sig.st.errors
    /\ c_pc' = "done"
    /\ UNCHANGED <<ast, options, class_nesting, imports, overloadVars, typeVars,
                   parseVars, walkVars>>

SignatureNext == FuncSignature

SpecSignature == SignatureInit /\ [][SignatureNext]_vars

(***************************************************************************)
(* ---- The visit of a module, call by call (SpecWalk) ----                *)
(* ASTConverter.visit over the statements of a module, one step for every  *)
(* entry into and return from a visit method, with the two pieces of state *)
(* the converter keeps across statements: class_nesting and imports.  Of   *)
(* the module returned, tree holds the imports.                            *)
(***************************************************************************)
\* alias = (identifier name, identifier? asname)
alias(name, asname) == [k |-> "alias", name |-> name, asname |-> asname]

\* Import(alias* names)
Import(names, line, col) ==
    [k |-> "Import", names |-> names, lineno |-> line, col_offset |-> col]

\* ImportFrom(identifier? module, alias* names, int? level)
ImportFrom(module, names, level, line, col) ==
    [k |-> "ImportFrom", module |-> module, names |-> names, level |-> level,
     lineno |-> line, col_offset |-> col]

\* ASTConverter.translate_module_id (305-316)
translate_module_id(id, opts) ==
    IF id = opts.custom_typing_module THEN "typing"
    ELSE IF id = "__builtin__" /\ opts.python_version[1] = 2 THEN "builtins"
    ELSE id

\* A slip: a translated module is never aliased back to its written name.
import_names_NoImplicitAlias(names, opts) ==
    [j \in 1..Len(names) |->
        <<translate_module_id(names[j].name, opts), names[j].asname>>]

\* Lines 671-680 of visit_Import: the pairs (name, asname).
import_names(names, opts) ==
    [j \in 1..Len(names) |->
        <<translate_module_id(names[j].name, opts),
          IF names[j].asname = NoneStr
             /\ translate_module_id(names[j].name, opts) # names[j].name
          THEN names[j].name
          ELSE names[j].asname>>]

\* ASTConverter.visit_Import (670-683): the node appended and returned.
AC_visit_Import(n, opts) ==
    set_line(Node("Import", [ids |-> import_names(n.names, opts)]), n)

\* ASTConverter.visit_ImportFrom (686-696): the node appended and returned.
AC_visit_ImportFrom(n, opts) ==
    set_line(
        IF Len(n.names) = 1 /\ n.names[1].name = "*"
        THEN Node("ImportAll",
                  [id |-> IF n.module # NoneStr THEN n.module ELSE "",
                   relative |-> n.level])
        ELSE Node("ImportFrom",
                  [id |-> IF n.module # NoneStr
                          THEN translate_module_id(n.module, opts) ELSE "",
                   relative |-> n.level,
                   names |-> [j \in 1..Len(n.names) |->
                                <<n.names[j].name, n.names[j].asname>>]]),
        n)

\* ---- the modules visited
MaxWalkStmts == 4

\* The statements without a body, written at a line.
WalkLeaves(line) ==
    {Pass(line, 0),
     Import(<<alias("__builtin__", NoneStr)>>, line, 0),
     ImportFrom("__builtin__", <<alias("x", NoneStr)>>, 0, line, 0)}

\* A class or a function with a body, written at a line.
WalkContainer(kind, body, line) ==
    IF kind = "ClassDef"
    THEN ClassDef("C", <<>>, <<>>, body, <<>>, line, 0)
    ELSE FunctionDef("f", arguments(<<>>, PyNone, <<>>, <<>>, PyNone, <<>>),
                     body, <<>>, PyNone, PyNone, line, 0)

\* The statement lists of n statements in all, nested ones counted, the first
\* at the given line and every statement on a line of its own.
RECURSIVE WalkForests(_, _)
WalkForests(n, line) ==
    IF n = 0 THEN {<<>>}
    ELSE {<<leaf>> \o rest :
            leaf \in WalkLeaves(line), rest \in WalkForests(n - 1, line + 1)}
         \cup UNION {{<<WalkContainer(kind, body, line)>> \o rest :
                        kind \in {"ClassDef", "FunctionDef"},
                        body \in WalkForests(m, line + 1),
                        rest \in WalkForests(n - 1 - m, line + 1 + m)} :
                     m \in 1..(n - 1)}

NestedModules == {Module(l) : l \in UNION {WalkForests(n, 1) : n \in 1..MaxWalkStmts}}

ImportAliases ==
    {alias(name, asname) :
        name \in {"__builtin__", "mytyping", "typing", "os"},
        asname \in {NoneStr, "b"}}

\* Modules of one import statement, of every form.
ImportModules ==
    {Module(<<Import(names, 1, 0)>>) :
        names \in {<<a>> : a \in ImportAliases}
                    \cup {<<a, alias("os", NoneStr)>> : a \in ImportAliases}}
    \cup {Module(<<ImportFrom(module, names, level, 1, 0)>>) :
            module \in {NoneStr, "__builtin__", "mytyping", "os"},
            names \in {<<alias("*", NoneStr)>>, <<alias("x", NoneStr)>>,
                       <<alias("x", "y"), alias("z", NoneStr)>>},
            level \in {0, 1}}

WalkOptions ==
    [custom_typing_module : {NoneStr, "mytyping", "typing"},
     python_version : {<<2, 7>>, <<3, 6>>},
     no_implicit_optional : {FALSE}]

WalkInit ==
    /\ OverloadIdle
    /\ TypeIdle
    /\ ParseIdle
    /\ \/ /\ ast \in NestedModules
          /\ options \in {o \in WalkOptions : o.custom_typing_module = NoneStr}
       \/ /\ ast \in ImportModules
          /\ options \in WalkOptions
    /\ errors = <<>>
    /\ class_nesting = 0
    /\ imports = <<>>
    /\ tree = PyNone
    /\ c_pc = "call"
    /\ visiting = <<>>

\* The innermost visit in progress and the statement it visits next.
Top == visiting[Len(visiting)]

HasNext == Top.next <= Len(Top.node.body)

NextStmt == Top.node.body[Top.next]

\* The visit calls once the innermost has gone on to its next statement.
Advanced(frames) ==
    [frames EXCEPT ![Len(frames)] = [@ EXCEPT !.next = @ + 1]]

\* visit_Module is entered (318-319)
EnterModule ==
    /\ c_pc = "call"
    /\ visiting' = <<[node |-> ast, next |-> 1]>>
    /\ c_pc' = "visit"
    /\ UNCHANGED <<ast, options, errors, class_nesting, imports, tree,
                   overloadVars, typeVars, parseVars>>

\* visit_ClassDef is entered and reaches the body (517-523)
EnterClassDef ==
    /\ c_pc = "visit" /\ HasNext /\ NextStmt.k = "ClassDef"
    /\ class_nesting' = class_nesting + 1
    /\ visiting' = Append(visiting, [node |-> NextStmt, next |-> 1])
    /\ UNCHANGED <<ast, options, errors, imports, tree, c_pc,
                   overloadVars, typeVars, parseVars>>

\* visit_ClassDef returns (524-531)
LeaveClassDef ==
    /\ c_pc = "visit" /\ ~HasNext /\ Top.node.k = "ClassDef"
    /\ class_nesting' = class_nesting - 1
    /\ visiting' = Advanced(SubSeq(visiting, 1, Len(visiting) - 1))
    /\ UNCHANGED <<ast, options, errors, imports, tree, c_pc,
                   overloadVars, typeVars, parseVars>>

\* visit_FunctionDef is entered and do_func_def reaches the body (332-423)
EnterFunctionDef ==
    /\ c_pc = "visit" /\ HasNext /\ NextStmt.k = "FunctionDef"
    /\ visiting' = Append(visiting, [node |-> NextStmt, next |-> 1])
    /\ UNCHANGED <<ast, options, errors, class_nesting, imports, tree, c_pc,
                   overloadVars, typeVars, parseVars>>

\* A slip: leaving a function takes the converter out of every class.
LeaveFunctionDef_Reset ==
    /\ c_pc = "visit" /\ ~HasNext /\ Top.node.k = "FunctionDef"
    /\ class_nesting' = 0
    /\ visiting' = Advanced(SubSeq(visiting, 1, Len(visiting) - 1))
    /\ UNCHANGED <<ast, options, errors, imports, tree, c_pc,
                   overloadVars, typeVars, parseVars>>

\* do_func_def and visit_FunctionDef return (423-444, 335)
LeaveFunctionDef ==
    /\ c_pc = "visit" /\ ~HasNext /\ Top.node.k = "FunctionDef"
    /\ visiting' = Advanced(SubSeq(visiting, 1, Len(visiting) - 1))
    /\ UNCHANGED <<ast, options, errors, class_nesting, imports, tree, c_pc,
                   overloadVars, typeVars, parseVars>>

\* visit_Import (670-683)
VisitImport ==
    /\ c_pc = "visit" /\ HasNext /\ NextStmt.k = "Import"
    /\ imports' = Append(imports, AC_visit_Import(NextStmt, options))
    /\ visiting' = Advanced(visiting)
    /\ UNCHANGED <<ast, options, errors, class_nesting, tree, c_pc,
                   overloadVars, typeVars, parseVars>>

\* visit_ImportFrom (686-696)
VisitImportFrom ==
    /\ c_pc = "visit" /\ HasNext /\ NextStmt.k = "ImportFrom"
    /\ imports' = Append(imports, AC_visit_ImportFrom(NextStmt, options))
    /\ visiting' = Advanced(visiting)
    /\ UNCHANGED <<ast, options, errors, class_nesting, tree, c_pc,
                   overloadVars, typeVars, parseVars>>

\* visit_Pass (715-717)
VisitPass ==
    /\ c_pc = "visit" /\ HasNext /\ NextStmt.k = "Pass"
    /\ visiting' = Advanced(visiting)
    /\ UNCHANGED <<ast, options, errors, class_nesting, imports, tree, c_pc,
                   overloadVars, typeVars, parseVars>>

\* visit_Module returns MypyFile(body, self.imports, ...) (321-325)
ReturnModule ==
    /\ c_pc = "visit" /\ ~HasNext /\ Top.node.k = "Module"
    /\ tree' = Node("MypyFile", [imports |-> imports])
    /\ visiting' = <<>>
    /\ c_pc' = "done"
    /\ UNCHANGED <<ast, options, errors, class_nesting, imports,
                   overloadVars, typeVars, parseVars>>

WalkNext ==
    \/ EnterModule
    \/ EnterClassDef
    \/ LeaveClassDef
    \/ EnterFunctionDef
    \/ LeaveFunctionDef
    \/ VisitImport
    \/ VisitImportFrom
    \/ VisitPass
    \/ ReturnModule

SpecWalk == WalkInit /\ [][WalkNext]_vars

(***************************************************************************)
(* ---- One call of parse (SpecParse, lines 98-138) ----                   *)
(* The source is given by what ast3.parse makes of it in mode 'exec': a    *)
(* Module, or a SyntaxError with its position and message.  The file name  *)
(* and the fields path and is_stub of the module are left out.             *)
(***************************************************************************)
\* MypyFile([], [], False, set()) (133)
EmptyMypyFile ==
    Node("MypyFile", [defs |-> <<>>, imports |-> <<>>, is_bom |-> FALSE,
                      ignored_lines |-> {}])

\* mypy.errors.Errors.is_errors: some message has been recorded.
is_errors(errs) == errs # <<>>

\* The line of the statements of a source, two lines apart.
StmtLine(j) == 2 * j - 1

\* What a statement may carry as its type comment: none, one that parses,
\* one that does not.
StmtTypeComments == {PyNone, PyStr(<<"int">>), PyStr(<<"int", "->">>)}

\* The statements of a source at `line`: each kind that may carry a type
\* comment, and one that may not.
StmtsAt(line) ==
    {Assign(<<At(Name("x", 0), line, 0)>>, At(Num("1", 0), line, 4), tc, line, 0) :
        tc \in StmtTypeComments}
    \cup {For(At(Name("x", 0), line, 4), At(Name("y", 0), line, 9),
              <<Pass(line + 1, 4)>>, <<>>, tc, line, 0) : tc \in StmtTypeComments}
    \cup {With(<<withitem(At(Name("y", 0), line, 5), At(Name("x", 0), line, 10))>>,
               <<Pass(line + 1, 4)>>, tc, line, 0) : tc \in StmtTypeComments}
    \cup {FunctionDef("f",
                      arguments(<<arg("p1", PyNone, tc, line, 6)>>, PyNone, <<>>,
                                <<>>, PyNone, <<>>),
                      <<Pass(line + 1, 4)>>, <<>>, PyNone, sc, line, 0) :
            tc \in StmtTypeComments,
            sc \in {PyNone, PyStr(<<"(", "int", ")", "->", "bool">>),
                    PyStr(<<"(", "int">>)}}
    \cup {Pass(line, 0)}

\* statements of a source
MaxSourceStmts == 2

RECURSIVE StmtListsOfLen(_)
\* The statement lists of m statements, the j-th at StmtLine(j).
StmtListsOfLen(m) ==
    IF m = 0 THEN {<<>>}
    ELSE {Append(b, a) : b \in StmtListsOfLen(m - 1), a \in StmtsAt(StmtLine(m))}

\* The sources: those the raw parser rejects, and those it accepts.
ParseSources ==
    {[k |-> "SyntaxError", lineno |-> l, offset |-> 3, msg |-> <<"invalid syntax">>] :
        l \in 1..2}
    \cup {[k |-> "Module", module |-> Module(b)] :
            b \in UNION {StmtListsOfLen(m) : m \in 0..MaxSourceStmts}}

ParseInit ==
    /\ OverloadIdle
    /\ TypeIdle
    /\ WalkIdle
    /\ source \in ParseSources
    /\ sink \in {"None", "Errors"}
    /\ raise_on_error = FALSE
    /\ p_pc = "start"
    /\ ast = PyNone
    /\ options = [no_implicit_optional |-> FALSE]
    /\ errors = <<>>
    /\ class_nesting = 0
    /\ imports = <<>>
    /\ tree = PyNone
    /\ c_pc = "idle"

\* Lines 105-111: the sink of the run, and whether to raise.
ParseEnter ==
    /\ p_pc = "start"
    /\ raise_on_error' = (sink = "None")
    /\ p_pc' = "parse"
    /\ UNCHANGED <<source, sink, convVars, overloadVars, typeVars, walkVars>>

\* Line 119, with the handler of lines 131-133 when the parser raises.
ParseRaw ==
    /\ p_pc = "parse"
    /\ IF source.k = "SyntaxError"
       THEN /\ errors' = Append(errors, Blocker(source.lineno, source.offset,
                                                source.msg))
            /\ tree' = EmptyMypyFile
            /\ p_pc' = "check"
            /\ UNCHANGED ast
       ELSE /\ ast' = source.module
            /\ p_pc' = "convert"
            /\ UNCHANGED <<errors, tree>>
    /\ UNCHANGED <<source, sink, raise_on_error, options, class_nesting, imports,
                   c_pc, overloadVars, typeVars, walkVars>>

\* Lines 121-130: the conversion; no SyntaxError leaves it.
ParseConvert ==
    /\ p_pc = "convert"
    /\ \E r \in {AC_visit_Module(ast, ASTConverter(options, errors))} :
        /\ tree' = r.node
        /\ errors' = r.st.errors
        /\ class_nesting' = r.st.class_nesting
        /\ imports' = r.st.imports
    /\ p_pc' = "check"
    /\ UNCHANGED <<source, sink, raise_on_error, ast, options, c_pc,
                   overloadVars, typeVars, walkVars>>

\* A slip: the blocking diagnostics are raised whether or not the caller
\* gave a sink.
ParseFinish_RaiseWithSink ==
    /\ p_pc = "check"
    /\ p_pc' = IF is_errors(errors) THEN "raised" ELSE "returned"
    /\ UNCHANGED <<source, sink, raise_on_error, convVars, overloadVars, typeVars,
                   walkVars>>

\* Lines 135-138: raise, or return the tree.
ParseFinish ==
    /\ p_pc = "check"
    /\ p_pc' = IF raise_on_error /\ is_errors(errors) THEN "raised" ELSE "returned"
    /\ UNCHANGED <<source, sink, raise_on_error, convVars, overloadVars, typeVars,
                   walkVars>>

ParseNext == ParseEnter \/ ParseRaw \/ ParseConvert \/ ParseFinish

SpecParse == ParseInit /\ [][ParseNext]_vars

(***************************************************************************)
(* ---- One conversion of an expression (SpecExprs) ----                   *)
(* The parser places a node at the position of its first token, so the     *)
(* children of a node at (l, c) stand at (l, c) or to the right of it.     *)
(***************************************************************************)
ExprLines == {1, 2}

ExprCols == {0, 4}

\* The leaves, by kind.
ExprLeaves ==
    {Name("x", 0), NameConstant("None", 0), NameConstant("True", 0),
     Num("1", 0), Str(<<"x">>, 0), Ellipsis(0)}

\* The expressions with the leaves a and b, written at (l, c).
ExprsOf(a, b, l, c) ==
    LET A == At(a, l, c)          \* a as the first token of the expression
        A1 == At(a, l, c + 1)     \* a after one opening token
        B == At(b, l, c + 5)      \* b further to the right
        f == At(Name("f", 0), l, c)
    IN  {A,
         At(Attribute(A, "attr", 0), l, c),
         At(Attribute(At(Call(At(Name("super", 0), l, c), <<>>, <<>>, 0), l, c),
                      "attr", 0), l, c),
         At(Subscript(A, Index(B), 0), l, c),
         At(Subscript(A, Slice(B, PyNone, PyNone), 0), l, c),
         At(Subscript(A, ExtSlice(<<Slice(PyNone, B, PyNone), Index(B)>>), 0), l, c),
         At(Tuple(<<A1, B>>, 0), l, c),
         At(List(<<A1, B>>, 0), l, c),
         At([List(<<A1, B>>, 0) EXCEPT !.ctx = "Store"], l, c),
         At(UnaryOp("Not", B, 0), l, c),
         At(UnaryOp("USub", A1, 0), l, c),
         At(BinOp(A, "Add", B, 0), l, c),
         At(BoolOp("And", <<A, B>>, 0), l, c),
         At(BoolOp("Or", <<A, B, At(a, l, c + 10)>>, 0), l, c),
         At(Call(f, <<B>>, <<>>, 0), l, c),
         At(Call(f, <<At(Starred(At(a, l, c + 3), 0), l, c + 2)>>,
                 <<keyword("k", B)>>, 0), l, c),
         At(Call(f, <<>>, <<keyword(NoneStr, B)>>, 0), l, c),
         At(FormattedValue(A1, -1, PyNone, 0), l, c),
         At(JoinedStr(<<At(Str(<<"s">>, 0), l, c),
                        At(FormattedValue(B, -1, PyNone, 0), l, c + 4)>>, 0), l, c)}

ExprInputs ==
    UNION {ExprsOf(a, b, l, c) :
            a \in ExprLeaves, b \in ExprLeaves, l \in ExprLines, c \in ExprCols}

\* components of an interpolated string literal
MaxParts == 2

\* The components of an interpolated string literal: a piece of text, or an
\* embedded expression with its conversion flag (-1: none, 114: !r) and its
\* format specifier (itself an interpolated literal).
JoinedStrParts ==
    {At(Str(<<"s">>, 0), 1, 2)}
    \cup {At(FormattedValue(At(v, 1, 3), conv, spec, 0), 1, 2) :
            v \in {Name("x", 0), Num("1", 0)},
            conv \in {-1, 114},
            spec \in {PyNone, At(JoinedStr(<<At(Str(<<".2f">>, 0), 1, 5)>>, 0), 1, 5)}}

InterpolatedStrs ==
    {At(JoinedStr(parts, 0), 1, 0) : parts \in SeqsUpTo(JoinedStrParts, MaxParts)}

ExprInit ==
    /\ OverloadIdle
    /\ TypeIdle
    /\ ParseIdle
    /\ WalkIdle
    /\ ast \in ExprInputs \cup InterpolatedStrs
    /\ options = [no_implicit_optional |-> FALSE]
    /\ errors = <<>>
    /\ class_nesting = 0
    /\ imports = <<>>
    /\ tree = PyNone
    /\ c_pc = "call"

\* self.visit(n) on an expression (visit_Expr 705, visit_Return 535, ...)
VisitExpr ==
    /\ c_pc = "call"
    /\ tree' = AC_expr(ast)
    /\ c_pc' = "done"
    /\ UNCHANGED <<ast, options, errors, class_nesting, imports,
                   overloadVars, typeVars, parseVars, walkVars>>

ExprNext == VisitExpr

SpecExprs == ExprInit /\ [][ExprNext]_vars

(***************************************************************************)
(* ---- Claims about fix_function_overloads (under SpecOverloads) ----     *)
(***************************************************************************)
IsGroup(s) == s.k = "OverloadedFuncDef"

\* stmts is three decorated functions of one name, then one of another name.
ThreeThenOne ==
    /\ Len(stmts) = 4
    /\ \A j \in 1..4 : stmts[j].k = "Decorator"
    /\ stmts[1].name = stmts[2].name
    /\ stmts[2].name = stmts[3].name
    /\ stmts[4].name # stmts[1].name

\* C1: three consecutive decorated functions f, f, f followed by a decorated
\* function g give exactly two statements: one OverloadedFuncDef whose items
\* are the three f statements in input order, then the g statement itself.
C1_ThreeFThenG ==
    (pc = "done" /\ ThreeThenOne)
        => ret = <<OverloadedFuncDef(SubSeq(stmts, 1, 3)), stmts[4]>>

C1_Witness ==
    /\ pc = "done"
    /\ ThreeThenOne
    /\ Len(ret) = 2
    /\ IsGroup(ret[1])
    /\ Len(ret[1].items) = 3

\* No two consecutive decorated functions of stmts have the same name.
NoAdjacentSameNameDecorators ==
    \A j \in 1..(Len(stmts) - 1) :
        ~ /\ stmts[j].k = "Decorator"
          /\ stmts[j + 1].k = "Decorator"
          /\ stmts[j].name = stmts[j + 1].name

\* No decorated function of stmts is directly followed by a decorated or bare
\* function of the same name.
NoDecoratorThenSameNameFunction ==
    \A j \in 1..(Len(stmts) - 1) :
        ~ /\ stmts[j].k = "Decorator"
          /\ stmts[j + 1].k \in {"Decorator", "FuncDef"}
          /\ stmts[j].name = stmts[j + 1].name

\* C2 as stated: on a sequence with no two consecutive decorated functions of
\* the same name, fix_function_overloads returns the sequence unchanged.
C2_NoOpWithoutAdjacentDecorators ==
    (pc = "done" /\ NoAdjacentSameNameDecorators) => ret = stmts

\* C2, amended: on a sequence in which no decorated function is directly
\* followed by a decorated or bare function of the same name,
\* fix_function_overloads returns the same statements in the same order and
\* creates no overload group.
C2_NoOpWithoutRun ==
    (pc = "done" /\ NoDecoratorThenSameNameFunction)
        => /\ ret = stmts
           /\ \A j \in 1..Len(ret) : ~IsGroup(ret[j])

C2_Witness ==
    /\ pc = "done"
    /\ NoDecoratorThenSameNameFunction
    /\ Len(stmts) = 4
    /\ stmts[1].k = "Decorator"
    /\ stmts[2].k = "ClassDef"
    /\ stmts[2].name = stmts[1].name
    /\ stmts[3].k = "FuncDef"
    /\ stmts[4].k = "FuncDef"
    /\ stmts[4].name = stmts[3].name
    /\ ret = stmts

\* C3: every overload group emitted has two or more items, all of them
\* decorated or bare functions of one common name, the first a decorated
\* function; every other emitted statement is an input statement itself
\* (a run of one is emitted unwrapped, an empty run emits nothing), and at the
\* end each input statement is either emitted itself or an item of a group.
C3_GroupsWellFormed ==
    /\ \A j \in 1..Len(ret) :
        IF IsGroup(ret[j])
        THEN /\ Len(ret[j].items) >= 2
             /\ \A m \in 1..Len(ret[j].items) :
                    /\ ret[j].items[m].k \in {"Decorator", "FuncDef"}
                    /\ ret[j].items[m].name = ret[j].items[1].name
             /\ ret[j].items[1].k = "Decorator"
        ELSE ret[j] \in Range(stmts)
    /\ pc = "done" =>
        \A j \in 1..Len(stmts) :
            (stmts[j] \in Range(ret))
                <=> ~(\E m \in 1..Len(ret) :
                        /\ IsGroup(ret[m])
                        /\ stmts[j] \in Range(ret[m].items))

C3_Witness ==
    /\ pc = "done"
    /\ Len(stmts) = 4
    /\ Len(ret) = 3
    /\ IsGroup(ret[2])
    /\ Len(ret[2].items) = 2
    /\ ret[2].items[2].k = "FuncDef"
    /\ ret[1] = stmts[1]
    /\ ret[1].k = "Decorator"
    /\ ret[3] = stmts[4]

(***************************************************************************)
(* ---- Claims about the type-expression evaluator (under SpecTypes) ----  *)
(***************************************************************************)
NumMsg(errs, msg) == Cardinality({j \in 1..Len(errs) : errs[j].msg = msg})

NumBlockers(errs) == Cardinality({j \in 1..Len(errs) : errs[j].blocker})

EvaluatedNode == t_pc = "done" /\ t_input.k = "node"

\* C8: a subscript on a bare name evaluates to an unbound type of that name
\* with the subscript contents as arguments: one argument for a plain
\* subscript (List[int]: the unbound type int), one per element for a tuple
\* subscript, none and the empty-tuple marker for Tuple[()] (the marker is set
\* exactly for an empty tuple); '...' evaluates to the ellipsis type; the
\* subscript and the ellipsis themselves report no diagnostic.
C8_SubscriptOnName ==
    EvaluatedNode =>
        LET n == t_input.node IN
        /\ (n.k = "Subscript" /\ n.slice.k = "Index" /\ n.value.k = "Name") =>
            LET v == n.slice.value
                elts == IF v.k = "Tuple" THEN v.elts ELSE <<v>>
            IN  /\ t_result.k = "UnboundType"
                /\ t_result.name = n.value.id
                /\ Len(t_result.args) = Len(elts)
                /\ \A j \in 1..Len(elts) :
                    /\ elts[j].k = "Name" =>
                        t_result.args[j] = UnboundType(elts[j].id, <<>>, TypeLine, FALSE)
                    /\ elts[j].k = "Ellipsis" =>
                        t_result.args[j] = EllipsisType(TypeLine)
                /\ t_result.empty_tuple_index = (v.k = "Tuple" /\ v.elts = <<>>)
                /\ (\A j \in 1..Len(elts) :
                        elts[j].k \in {"Name", "NameConstant", "Ellipsis"})
                    => t_errors = <<>>
        /\ n.k = "Ellipsis" => (t_result = EllipsisType(TypeLine) /\ t_errors = <<>>)

C8_Witness ==
    /\ EvaluatedNode
    /\ t_input.node = Subscript(Name("Tuple", 0), Index(Tuple(<<>>, 0)), 0)
    /\ t_result.k = "UnboundType"
    /\ t_result.name = "Tuple"
    /\ t_result.args = <<>>
    /\ t_result.empty_tuple_index
    /\ t_errors = <<>>

\* A constructor call with a stringifiable callee, a name as first and a string
\* literal as second positional argument, and no keywords.
IsArgLiteral(c) ==
    /\ c.k = "Call"
    /\ stringify_name(c.func) # NoneStr
    /\ Len(c.args) >= 2
    /\ c.args[1].k = "Name"
    /\ c.args[2].k = "Str"
    /\ c.keywords = <<>>

TooMany == <<"Too many arguments for argument constructor">>

\* What C9 says of the slot of an argument literal c, with the given name.
ArgLiteralSlotIs(c, slot, name) ==
    /\ slot = CallableArgument(UnboundType(c.args[1].id, <<>>, TypeLine, FALSE),
                               name, stringify_name(c.func), c.lineno, c.col_offset)
    /\ NumMsg(t_errors, TooMany) = Len(c.args) - 2

\* C9 as stated: Arg(type, 'string') as a direct element of a bracketed list
\* evaluates, with no diagnostic, to a CallableArgument carrying the type, the
\* string as its name and the constructor's textual name; every positional
\* argument beyond the second reports 'Too many arguments for argument
\* constructor'.
C9_ArgLiteralKeepsName ==
    (EvaluatedNode /\ t_input.node.k = "List") =>
        \A j \in 1..Len(t_input.node.elts) :
            LET c == t_input.node.elts[j] IN
            IsArgLiteral(c) =>
                /\ ArgLiteralSlotIs(c, t_result.items[j], PyStr(c.args[2].s))
                /\ (Len(c.args) = 2 /\ Len(t_input.node.elts) = 1) => t_errors = <<>>

\* C9, amended: ... carrying the type, the string with the white space around
\* it stripped as its name, and the constructor's textual name ...
C9_ArgLiteralStripsName ==
    (EvaluatedNode /\ t_input.node.k = "List") =>
        \A j \in 1..Len(t_input.node.elts) :
            LET c == t_input.node.elts[j] IN
            IsArgLiteral(c) =>
                /\ ArgLiteralSlotIs(c, t_result.items[j], PyStr(Strip(c.args[2].s)))
                /\ (Len(c.args) = 2 /\ Len(t_input.node.elts) = 1) => t_errors = <<>>

C9_Witness ==
    /\ EvaluatedNode
    /\ t_input.node.k = "List"
    /\ Len(t_input.node.elts) = 1
    /\ IsArgLiteral(t_input.node.elts[1])
    /\ Len(t_input.node.elts[1].args) = 3
    /\ t_input.node.elts[1].args[2].s = <<" ", "x", " ">>
    /\ t_result.items[1].k = "CallableArgument"
    /\ t_result.items[1].name = PyStr(<<"x">>)
    /\ NumMsg(t_errors, TooMany) = 1

HasKeyword(c, names) == \E m \in 1..Len(c.keywords) : c.keywords[m].arg \in names

\* A malformed constructor call, in the words of C10.
Malformed(c) ==
    /\ c.k = "Call"
    /\ \/ Len(c.args) > 2
       \/ Len(c.args) >= 1 /\ HasKeyword(c, {"type"})
       \/ Len(c.args) >= 2 /\ HasKeyword(c, {"name"})
       \/ \E m \in 1..Len(c.keywords) : c.keywords[m].arg \notin {"type", "name"}

\* The same, a name counting as given positionally when it is a string literal.
MalformedReported(c) ==
    /\ c.k = "Call"
    /\ \/ Len(c.args) > 2
       \/ Len(c.args) >= 1 /\ HasKeyword(c, {"type"})
       \/ Len(c.args) >= 2 /\ c.args[2].k = "Str" /\ HasKeyword(c, {"name"})
       \/ \E m \in 1..Len(c.keywords) : c.keywords[m].arg \notin {"type", "name"}

\* The three-slot list of CallContext: a name, the call, a name.
ThreeSlots ==
    /\ EvaluatedNode
    /\ t_input.node.k = "List"
    /\ Len(t_input.node.elts) = 3

\* C10 as stated: a malformed constructor call in a bracketed list reports a
\* blocking diagnostic and its slot holds an error-flavored dynamic type, the
\* other slots being evaluated normally.
C10_MalformedSlotIsError ==
    ThreeSlots =>
        LET c == t_input.node.elts[2] IN
        Malformed(c) =>
            /\ NumBlockers(t_errors) >= 1
            /\ t_result.items[2] = AnyType("from_error")
            /\ t_result.items[1] = UnboundType("int", <<>>, TypeLine, FALSE)
            /\ t_result.items[3] = UnboundType("str", <<>>, TypeLine, FALSE)

\* C10, amended: a malformed constructor call in a bracketed list (more than
\* two positional arguments, a type given both positionally and by keyword, a
\* name given both as a positional string literal and by keyword, or a keyword
\* other than type/name) reports a blocking diagnostic, and its slot still
\* holds a constructor-argument wrapper, not an error-flavored dynamic type;
\* the other slots are evaluated normally.
C10_MalformedSlotIsWrapper ==
    ThreeSlots =>
        LET c == t_input.node.elts[2] IN
        MalformedReported(c) =>
            /\ NumBlockers(t_errors) >= 1
            /\ t_result.items[2].k = "CallableArgument"
            /\ t_result.items[2].constructor = stringify_name(c.func)
            /\ t_result.items[1] = UnboundType("int", <<>>, TypeLine, FALSE)
            /\ t_result.items[3] = UnboundType("str", <<>>, TypeLine, FALSE)

C10_Witness ==
    /\ ThreeSlots
    /\ Len(t_input.node.elts[2].args) = 3
    /\ HasKeyword(t_input.node.elts[2], {"kind"})
    /\ stringify_name(t_input.node.elts[2].func) = "Arg"
    /\ t_result.items[2].k = "CallableArgument"
    /\ NumBlockers(t_errors) = 2

(***************************************************************************)
(* ---- Claims about transform_args (under SpecArgs) ----                  *)
(***************************************************************************)
\* The place of a kind in the order of the groups.
KindRank(kind) ==
    CASE kind = "ARG_POS" -> 1 [] kind = "ARG_OPT" -> 2 [] kind = "ARG_STAR" -> 3
      [] kind \in {"ARG_NAMED", "ARG_NAMED_OPT"} -> 4 [] kind = "ARG_STAR2" -> 5

\* The raw parameters of a structure, in source order.
RawParams(a) ==
    a.args \o (IF a.vararg # PyNone THEN <<a.vararg>> ELSE <<>>)
           \o a.kwonlyargs
           \o (IF a.kwarg # PyNone THEN <<a.kwarg>> ELSE <<>>)

\* C6: transform_args returns one argument per raw parameter, the groups in
\* the order required-positional, optional-positional, variadic-positional,
\* keyword-only, variadic-keyword; the last len(defaults) positional
\* parameters are the optional ones, a keyword-only parameter is optional
\* exactly when it has a default, and the result has
\* len(args) + len(kwonlyargs) + (1 if vararg) + (1 if kwarg) arguments.
C6_KindsInGroupOrder ==
    c_pc = "done" =>
        LET raw == RawParams(ast)
            nvar == IF ast.vararg # PyNone THEN 1 ELSE 0
            nkw == IF ast.kwarg # PyNone THEN 1 ELSE 0
            kwbase == Len(ast.args) + nvar
        IN  /\ Len(tree) = Len(ast.args) + Len(ast.kwonlyargs) + nvar + nkw
            /\ \A j \in 1..Len(tree) : tree[j].variable.name = raw[j].arg
            /\ \A j, h \in 1..Len(tree) :
                    j < h => KindRank(tree[j].kind) <= KindRank(tree[h].kind)
            /\ \A j \in 1..Len(ast.args) :
                    tree[j].kind = IF j > Len(ast.args) - Len(ast.defaults)
                                   THEN "ARG_OPT" ELSE "ARG_POS"
            /\ nvar = 1 => tree[Len(ast.args) + 1].kind = "ARG_STAR"
            /\ \A j \in 1..Len(ast.kwonlyargs) :
                    tree[kwbase + j].kind = IF ast.kw_defaults[j] = PyNone
                                            THEN "ARG_NAMED" ELSE "ARG_NAMED_OPT"
            /\ nkw = 1 => tree[Len(tree)].kind = "ARG_STAR2"

\* One required and one defaulted positional parameter, *args, two
\* keyword-only parameters of which one has a default, and **kwargs have
\* been converted.
C6_Witness ==
    /\ c_pc = "done"
    /\ Len(ast.args) = 2 /\ Len(ast.defaults) = 1
    /\ ast.vararg # PyNone /\ ast.kwarg # PyNone
    /\ Len(ast.kwonlyargs) = 2
    /\ ast.kw_defaults[1] = PyNone /\ ast.kw_defaults[2] # PyNone
    /\ [j \in 1..Len(tree) |-> tree[j].kind]
         = <<"ARG_POS", "ARG_OPT", "ARG_STAR", "ARG_NAMED", "ARG_NAMED_OPT",
             "ARG_STAR2">>

(***************************************************************************)
(* ---- Claims about do_func_def (under SpecModule) ----                   *)
(***************************************************************************)
\* The raw function of the module and the FuncDef converted from it.
InClassBody == ast.body[1].k = "ClassDef"

RawFunc == IF InClassBody THEN ast.body[1].body[1] ELSE ast.body[1]

ConvertedFunc ==
    LET top == tree.defs[1]
        inner == IF top.k = "ClassDef" THEN top.defs.body[1] ELSE top
    IN  IF inner.k = "Decorator" THEN inner.func ELSE inner

HasNoTypeCheck(fd) ==
    \E j \in 1..Len(fd.decorator_list) :
        is_no_type_check_decorator(fd.decorator_list[j])

\* The function has a type comment the parser accepts, and its tree.
HasParsedComment(fd) ==
    fd.type_comment # PyNone /\ fd.type_comment.s \in DOMAIN FuncTypeOfText

CommentTree(fd) == FuncTypeOfText[fd.type_comment.s]

IsEllipsisComment(ft) == Len(ft.argtypes) = 1 /\ ft.argtypes[1].k = "Ellipsis"

\* The types the annotation and the comment give for the return value.
AnnotationReturnType(fd) ==
    TC_visit(fd.returns, TypeConverter(<<>>, fd.returns.lineno)).t

CommentReturnType(fd) ==
    TC_visit(CommentTree(fd).returns, TypeConverter(<<>>, fd.lineno)).t

\* A type-checked function with a return annotation, a well-formed
\* non-ellipsis type comment and no annotated parameter has been converted.
AnnotationAndComment ==
    /\ c_pc = "done"
    /\ ~HasNoTypeCheck(RawFunc)
    /\ RawFunc.returns # PyNone
    /\ HasParsedComment(RawFunc)
    /\ ~IsEllipsisComment(CommentTree(RawFunc))
    /\ \A j \in 1..Len(RawFunc.args.args) : RawFunc.args.args[j].annotation = PyNone

\* C4 as stated: one duplicate-type-signature diagnostic, and the return type
\* of the signature is the one of the inline annotation.
C4_AnnotationWins ==
    AnnotationAndComment =>
        /\ NumMsg(errors, DUPLICATE_TYPE_SIGNATURES) = 1
        /\ ConvertedFunc.type # PyNone =>
                ConvertedFunc.type.ret_type = AnnotationReturnType(RawFunc)

\* C4, amended: a function with a return annotation and a well-formed
\* non-ellipsis type comment gets exactly one duplicate-type-signature
\* blocking diagnostic, at the function's position, and the return type of
\* the signature built is the one of the comment, not of the annotation.
C4_CommentWins ==
    AnnotationAndComment =>
        /\ NumMsg(errors, DUPLICATE_TYPE_SIGNATURES) = 1
        /\ \E j \in 1..Len(errors) :
                errors[j] = Blocker(RawFunc.lineno, RawFunc.col_offset,
                                    DUPLICATE_TYPE_SIGNATURES)
        /\ ConvertedFunc.type # PyNone =>
                /\ ConvertedFunc.type.ret_type = CommentReturnType(RawFunc)
                /\ ConvertedFunc.type.ret_type # AnnotationReturnType(RawFunc)

\* Such a function has been given its signature: `-> str` with `-> bool` in
\* the comment.
C4_Witness ==
    /\ AnnotationAndComment
    /\ ConvertedFunc.type # PyNone
    /\ AnnotationReturnType(RawFunc).name = "str"
    /\ ConvertedFunc.type.ret_type.name = "bool"

TOO_FEW == <<"Type signature has too few arguments">>

TOO_MANY == <<"Type signature has too many arguments">>

\* A type-checked function with 3 parameters and a well-formed type comment
\* of nt plain argument types has been converted.
ThreeParamsWithComment(nt) ==
    /\ c_pc = "done"
    /\ ~HasNoTypeCheck(RawFunc)
    /\ Len(RawFunc.args.args) = 3
    /\ HasParsedComment(RawFunc)
    /\ Len(CommentTree(RawFunc).argtypes) = nt
    /\ \A j \in 1..nt : CommentTree(RawFunc).argtypes[j].k # "Ellipsis"

\* C5 as stated: in a class body or not, 2 types for 3 parameters are too
\* few and 4 are too many, each with one diagnostic and no callable type.
C5_ArityMismatchAnywhere ==
    /\ ThreeParamsWithComment(2) =>
            NumMsg(errors, TOO_FEW) = 1 /\ ConvertedFunc.type = PyNone
    /\ ThreeParamsWithComment(4) =>
            NumMsg(errors, TOO_MANY) = 1 /\ ConvertedFunc.type = PyNone

\* C5, amended: 4 types for 3 parameters are too many everywhere, and 2 are
\* too few outside a class body; in a class body the 2 types are taken as
\* those of the parameters after the receiver, whose type is an implicit
\* special-form Any: no arity diagnostic, and the function gets a callable
\* type of 3 argument types.
C5_ArityMismatchOutsideClass ==
    /\ ThreeParamsWithComment(4) =>
            /\ NumMsg(errors, TOO_MANY) = 1
            /\ NumMsg(errors, TOO_FEW) = 0
            /\ ConvertedFunc.type = PyNone
    /\ ThreeParamsWithComment(2) /\ ~InClassBody =>
            /\ NumMsg(errors, TOO_FEW) = 1
            /\ NumMsg(errors, TOO_MANY) = 0
            /\ ConvertedFunc.type = PyNone
    /\ ThreeParamsWithComment(2) /\ InClassBody =>
            /\ NumMsg(errors, TOO_FEW) = 0
            /\ NumMsg(errors, TOO_MANY) = 0
            /\ ConvertedFunc.type # PyNone
            /\ Len(ConvertedFunc.type.arg_types) = 3
            /\ ConvertedFunc.type.arg_types[1] = AnyType("special_form")

\* A method of 3 parameters with 2 types in its comment has got a callable
\* type without any diagnostic.
C5_Witness ==
    /\ ThreeParamsWithComment(2)
    /\ InClassBody
    /\ ConvertedFunc.type # PyNone
    /\ errors = <<>>

(***************************************************************************)
(* ---- Claims about positions (under SpecExprs) ----                      *)
(***************************************************************************)
\* The raw nodes that have a position: slices have none in typed_ast.
HasPosition(n) == n.k \notin {"Index", "Slice", "ExtSlice"}

RECURSIVE PositionsKept(_, _), GroupPositionsKept(_, _, _)

\* The nested expressions of group() for the values vals of the chain n.
GroupPositionsKept(n, vals, e) ==
    /\ e.line = n.lineno /\ e.column = n.col_offset
    /\ PositionsKept(vals[1], e.left)
    /\ IF Len(vals) = 2 THEN PositionsKept(vals[2], e.right)
       ELSE GroupPositionsKept(n, Tail(vals), e.right)

\* The semantic node e converted from the raw node n, and the nodes
\* converted from the nodes below n, stand where their raw nodes do.
PositionsKept(n, e) ==
    IF n = PyNone THEN TRUE
    ELSE
    /\ HasPosition(n) /\ n.k # "Starred" =>
            e.line = n.lineno /\ e.column = n.col_offset
    /\ CASE n.k = "Attribute" ->
                PositionsKept(n.value, IF e.k = "SuperExpr" THEN e.call ELSE e.expr)
         [] n.k = "Subscript" ->
                PositionsKept(n.value, e.base) /\ PositionsKept(n.slice, e.index)
         [] n.k = "Index" -> PositionsKept(n.value, e)
         [] n.k = "Slice" ->
                /\ PositionsKept(n.lower, e.begin_index)
                /\ PositionsKept(n.upper, e.end_index)
                /\ PositionsKept(n.step, e.stride)
         [] n.k = "ExtSlice" ->
                \A j \in 1..Len(n.dims) : PositionsKept(n.dims[j], e.items[j])
         [] n.k \in {"Tuple", "List"} ->
                \A j \in 1..Len(n.elts) : PositionsKept(n.elts[j], e.items[j])
         [] n.k = "Starred" -> PositionsKept(n.value, e)
         [] n.k = "UnaryOp" -> PositionsKept(n.operand, e.expr)
         [] n.k = "BinOp" ->
                PositionsKept(n.left, e.left) /\ PositionsKept(n.right, e.right)
         [] n.k = "BoolOp" -> GroupPositionsKept(n, n.values, e)
         [] n.k = "Call" ->
                /\ PositionsKept(n.func, e.callee)
                /\ \A j \in 1..Len(n.args) : PositionsKept(n.args[j], e.args[j])
                /\ \A j \in 1..Len(n.keywords) :
                        PositionsKept(n.keywords[j].value, e.args[Len(n.args) + j])
         [] n.k = "JoinedStr" ->
                \A j \in 1..Len(n.values) :
                    PositionsKept(n.values[j], e.args[1].items[j])
         [] n.k = "FormattedValue" -> PositionsKept(n.value, e.args[1])
         [] OTHER -> TRUE

\* C7 as stated, on expressions: every semantic node converted from a raw
\* node carries the line and column of that raw node, name constants and the
\* value embedded in a formatted-string component included.
C7_PositionsKept ==
    c_pc = "done" => PositionsKept(ast, tree)

(***************************************************************************)
(* ---- Claims about parse (under SpecParse) ----                          *)
(***************************************************************************)
ParseEnded == p_pc \in {"returned", "raised"}

\* The comments of the statements of `body` that the parser rejects, as
\* pairs <<j, h>>: h = 0 for the comment of the j-th statement itself, h > 0
\* for the comment of its h-th parameter.
BadComments(body) ==
    {<<j, 0>> : j \in {h \in 1..Len(body) :
        /\ body[h].k \in {"Assign", "For", "With"}
        /\ body[h].type_comment # PyNone
        /\ ~ast3_parse_eval(body[h].type_comment.s).ok}}
    \cup {<<j, 0>> : j \in {h \in 1..Len(body) :
        /\ body[h].k = "FunctionDef"
        /\ body[h].type_comment # PyNone
        /\ ~ast3_parse_func_type(body[h].type_comment.s).ok}}
    \cup {<<j, 1>> : j \in {h \in 1..Len(body) :
        /\ body[h].k = "FunctionDef"
        /\ body[h].args.args[1].type_comment # PyNone
        /\ ~ast3_parse_eval(body[h].args.args[1].type_comment.s).ok}}

\* C11: with a sink, parse never raises: when the raw parser rejects the
\* source it reports exactly one blocking diagnostic and returns the empty
\* module, and otherwise it returns the converted module, one node per
\* statement, whatever was reported; without a sink it raises only from the
\* check that follows the completed run, and does so exactly when some
\* blocking diagnostic was recorded.
C11_FailureModeBySink ==
    /\ sink = "Errors" => p_pc # "raised"
    /\ (sink = "Errors" /\ p_pc = "returned" /\ source.k = "SyntaxError") =>
            /\ Len(errors) = 1
            /\ errors[1] = Blocker(source.lineno, source.offset, source.msg)
            /\ tree.k = "MypyFile" /\ tree.defs = <<>> /\ tree.imports = <<>>
    /\ (sink = "Errors" /\ p_pc = "returned" /\ source.k = "Module") =>
            /\ tree.k = "MypyFile"
            /\ Len(tree.defs) = Len(source.module.body)
            /\ tree = AC_visit_Module(source.module,
                                      ASTConverter(options, <<>>)).node
    /\ p_pc = "raised" => tree # PyNone
    /\ (sink = "None" /\ ParseEnded) =>
            (p_pc = "raised" <=> NumBlockers(errors) > 0)

\* A source with two unparsable comments was converted with a sink: both
\* statements are returned, with two blocking diagnostics.
C11_Witness ==
    /\ sink = "Errors" /\ p_pc = "returned" /\ source.k = "Module"
    /\ NumBlockers(errors) >= 2
    /\ Len(tree.defs) = 2

\* C12 as stated: with a sink, an unparsable type comment ends the run with
\* a blocking diagnostic and the empty module.
C12_BadCommentEmptiesModule ==
    (/\ sink = "Errors" /\ p_pc = "returned" /\ source.k = "Module"
     /\ BadComments(source.module.body) # {}) =>
        /\ NumBlockers(errors) >= 1
        /\ tree.defs = <<>>

\* The node of statement n carries no type where n's comment did not parse:
\* the type of an assignment, of a loop target or of a with target is unset,
\* so is the type of the parameter; a function whose own comment did not
\* parse has error-flavored dynamic types.
BadCommentLeavesTypeUnset(n, e) ==
    CASE n.k = "Assign" -> e.k = "AssignmentStmt" /\ e.type = PyNone
      [] n.k = "For" -> e.k = "ForStmt" /\ e.index_type = PyNone
      [] n.k = "With" -> e.k = "WithStmt" /\ e.target_type = PyNone
      [] n.k = "FunctionDef" ->
            /\ e.k = "FuncDef"
            /\ (n.args.args[1].type_comment # PyNone
                    /\ ~ast3_parse_eval(n.args.args[1].type_comment.s).ok)
                => e.arguments[1].type_annotation = PyNone
            /\ (n.type_comment # PyNone
                    /\ ~ast3_parse_func_type(n.type_comment.s).ok)
                => /\ e.type.arg_types = <<AnyType("from_error")>>
                   /\ e.type.ret_type = AnyType("from_error")

\* C12, amended: with a sink, an unparsable type comment does not end the
\* run: parse reports one 'syntax error in type comment' blocking diagnostic
\* for each such comment and returns the converted module with a node for
\* every statement, the statement or parameter that carries the comment
\* being left without a type.
C12_BadCommentKeepsModule ==
    (/\ sink = "Errors" /\ p_pc = "returned" /\ source.k = "Module"
     /\ BadComments(source.module.body) # {}) =>
        /\ NumMsg(errors, TYPE_COMMENT_SYNTAX_ERROR)
                = Cardinality(BadComments(source.module.body))
        /\ Len(tree.defs) = Len(source.module.body)
        /\ \A j \in 1..Len(tree.defs) :
                (\E h \in 0..1 : <<j, h>> \in BadComments(source.module.body))
                    => BadCommentLeavesTypeUnset(source.module.body[j],
                                                 tree.defs[j])

\* An assignment with an unparsable comment was converted before a second
\* statement, and both are in the module returned.
C12_Witness ==
    /\ sink = "Errors" /\ p_pc = "returned" /\ source.k = "Module"
    /\ Len(source.module.body) = 2
    /\ source.module.body[1].k = "Assign"
    /\ <<1, 0>> \in BadComments(source.module.body)
    /\ source.module.body[2].k = "Pass"
    /\ Len(tree.defs) = 2
    /\ Len(errors) = 1

(***************************************************************************)
(* ---- Claims about no_type_check (under SpecModule) ----                 *)
(***************************************************************************)
ELLIPSES_WITH_OTHERS ==
    <<"Ellipses cannot accompany other argument types in function type signature.">>

\* C13: when some decorator of a function is the name no_type_check or the
\* attribute typing.no_type_check, every parameter's declared type is unset
\* and the function has no callable type, whatever annotations, parameter
\* type comments or signature type comment it has, and no duplicate-signature,
\* arity or comment-syntax diagnostic is reported.
C13_NoTypeCheckSuppresses ==
    (c_pc = "done" /\ HasNoTypeCheck(RawFunc)) =>
        /\ \A j \in 1..Len(ConvertedFunc.arguments) :
                ConvertedFunc.arguments[j].type_annotation = PyNone
        /\ Len(ConvertedFunc.arguments) = Len(RawFunc.args.args)
        /\ ConvertedFunc.type = PyNone
        /\ ConvertedFunc.unanalyzed_type = PyNone
        /\ \A j \in 1..Len(errors) :
                errors[j].msg \notin {DUPLICATE_TYPE_SIGNATURES, TOO_FEW, TOO_MANY,
                                      ELLIPSES_WITH_OTHERS,
                                      TYPE_COMMENT_SYNTAX_ERROR}

\* A function under typing.no_type_check whose parameters carry both an
\* annotation and a type comment, with a return annotation and an
\* unparsable signature comment, has been converted.
C13_Witness ==
    /\ c_pc = "done"
    /\ Len(RawFunc.decorator_list) = 2
    /\ RawFunc.decorator_list[2].k = "Attribute"
    /\ HasNoTypeCheck(RawFunc)
    /\ Len(RawFunc.args.args) = 2
    /\ \A j \in 1..2 : /\ RawFunc.args.args[j].annotation # PyNone
                        /\ RawFunc.args.args[j].type_comment # PyNone
    /\ RawFunc.returns # PyNone
    /\ RawFunc.type_comment = PyStr(<<"(", "int">>)
    /\ ConvertedFunc.type = PyNone
    /\ errors = <<>>

(***************************************************************************)
(* ---- Claims about make_argument (under SpecModule) ----                 *)
(***************************************************************************)
\* The types the annotation and the type comment of a raw parameter give.
ParamAnnotationType(a) ==
    TC_visit(a.annotation, TypeConverter(<<>>, a.lineno)).t

ParamCommentType(a) == parse_type_comment(a.type_comment.s, a.lineno, <<>>).t

\* The duplicate-type-signature diagnostics at the position of parameter a.
DuplicatesAt(a) ==
    {j \in 1..Len(errors) :
        errors[j] = Blocker(a.lineno, a.col_offset, DUPLICATE_TYPE_SIGNATURES)}

\* A type-checked function without a signature comment has been converted.
CheckedWithoutComment ==
    /\ c_pc = "done"
    /\ ~HasNoTypeCheck(RawFunc)
    /\ RawFunc.type_comment = PyNone
    /\ RawFunc.returns = PyNone
    /\ RawFunc.args.defaults = <<>>

\* C14: outside no-type-check mode a parameter with both an inline
\* annotation and a type comment of its own yields exactly one
\* duplicate-type-signature blocking diagnostic at the parameter's position
\* and has the type of the annotation; a parameter with one of the two
\* yields none and has the type of that one; a parameter with neither has
\* no type.
C14_ParameterTypeSource ==
    CheckedWithoutComment =>
        \A j \in 1..Len(RawFunc.args.args) :
            LET a == RawFunc.args.args[j]
                t == ConvertedFunc.arguments[j].type_annotation
            IN  IF a.annotation # PyNone /\ a.type_comment # PyNone
                THEN /\ Cardinality(DuplicatesAt(a)) = 1
                     /\ t = ParamAnnotationType(a)
                ELSE /\ DuplicatesAt(a) = {}
                     /\ IF a.annotation # PyNone THEN t = ParamAnnotationType(a)
                        ELSE IF a.type_comment # PyNone
                        THEN t = ParamCommentType(a)
                        ELSE t = PyNone

\* A function whose first parameter has both (`int` and the comment `str`),
\* whose second has the annotation only and whose third the comment only
\* has been converted: one diagnostic, and the types int, int, str.
C14_Witness ==
    /\ CheckedWithoutComment
    /\ Len(RawFunc.args.args) = 3
    /\ RawFunc.args.args[1].annotation # PyNone
    /\ RawFunc.args.args[1].type_comment # PyNone
    /\ RawFunc.args.args[2].type_comment = PyNone
    /\ RawFunc.args.args[3].annotation = PyNone
    /\ NumMsg(errors, DUPLICATE_TYPE_SIGNATURES) = 1
    /\ ConvertedFunc.arguments[1].type_annotation.name = "int"
    /\ ConvertedFunc.arguments[2].type_annotation.name = "int"
    /\ ConvertedFunc.arguments[3].type_annotation.name = "str"

(***************************************************************************)
(* ---- Claims about interpolated string literals (under SpecExprs) ----   *)
(***************************************************************************)
\* e is a call of the member `name` on the string literal `text` with the
\* one positional argument it has.
IsMemberCallOnStr(e, name, text) ==
    /\ e.k = "CallExpr"
    /\ e.callee.k = "MemberExpr" /\ e.callee.name = name
    /\ e.callee.expr.k = "StrExpr" /\ e.callee.expr.value = text
    /\ Len(e.args) = 1
    /\ e.arg_kinds = <<"ARG_POS">>
    /\ e.arg_names = <<NoneStr>>

\* A node, its own position apart.
Unplaced(e) == [e EXCEPT !.line = 0, !.column = 0]

\* The raw literal with no conversion flag and no format specifier on its
\* components.
PlainComponents(n) ==
    [n EXCEPT !.values =
        [j \in 1..Len(n.values) |->
            IF n.values[j].k = "FormattedValue"
            THEN [n.values[j] EXCEPT !.conversion = -1, !.format_spec = PyNone]
            ELSE n.values[j]]]

\* C15: an interpolated string literal with n components becomes a call of
\* `join` on the empty string literal with one positional argument, a list
\* expression of n items in source order; each interpolated component is a
\* call of `format` on the literal '{}' with the converted embedded
\* expression as only argument; the conversion flag and the format specifier
\* of a component change nothing.
C15_JoinedStrDesugars ==
    (c_pc = "done" /\ ast.k = "JoinedStr") =>
        /\ IsMemberCallOnStr(tree, "join", <<>>)
        /\ tree.args[1].k = "ListExpr"
        /\ Len(tree.args[1].items) = Len(ast.values)
        /\ \A j \in 1..Len(ast.values) :
                LET part == ast.values[j]
                    item == tree.args[1].items[j]
                IN  IF part.k = "FormattedValue"
                    THEN /\ IsMemberCallOnStr(item, "format", <<"{}">>)
                         /\ Unplaced(item.args[1]) = Unplaced(AC_expr(part.value))
                    ELSE item.k = "StrExpr" /\ item.value = part.s
        /\ tree = AC_expr(PlainComponents(ast))

\* A literal of a piece of text and an embedded `x` with the flag !r and a
\* format specifier has been converted.
C15_Witness ==
    /\ c_pc = "done" /\ ast.k = "JoinedStr"
    /\ Len(ast.values) = 2
    /\ ast.values[1].k = "Str"
    /\ ast.values[2].k = "FormattedValue"
    /\ ast.values[2].conversion = 114
    /\ ast.values[2].format_spec # PyNone
    /\ tree.args[1].items[2].args[1].k = "NameExpr"
    /\ tree.args[1].items[2].args[1].name = "x"

(***************************************************************************)
(* ---- Claims about unsupported type expressions (under SpecTypes) ----   *)
(***************************************************************************)
\* The node kinds TypeConverter has a visit method for.
TC_SupportedKinds ==
    {"Call", "Name", "NameConstant", "Str", "Subscript", "Tuple", "Attribute",
     "Ellipsis", "List"}

\* The 'invalid type comment or annotation' diagnostics for node n.
AstErrorsAt(n) ==
    {j \in 1..Len(t_errors) :
        t_errors[j] = Blocker(TypeLine, n.col_offset, TYPE_COMMENT_AST_ERROR)}

\* The tuple or list n with a name in place of each unsupported element.
WithSupportedOnly(n) ==
    [n EXCEPT !.elts =
        [j \in 1..Len(n.elts) |->
            IF n.elts[j].k \in TC_SupportedKinds THEN n.elts[j]
            ELSE At(Name("int", 0), n.elts[j].lineno, n.elts[j].col_offset)]]

\* A tuple or a bracketed list of type expressions has been evaluated.
EvaluatedSequence == EvaluatedNode /\ t_input.node.k \in {"Tuple", "List"}

\* C16: a node of a kind the evaluator does not support gets exactly one
\* 'invalid type comment or annotation' blocking diagnostic and evaluates to
\* an error-flavored dynamic type; its siblings are still evaluated: a tuple
\* or a bracketed list of k type expressions yields a tuple type or a type
\* list of exactly k entries, each supported one being what it is when the
\* unsupported ones are replaced by a name.
C16_UnsupportedNodeIsLocal ==
    /\ (EvaluatedNode /\ t_input.node.k \notin TC_SupportedKinds) =>
            /\ t_result = AnyType("from_error")
            /\ t_errors = <<Blocker(TypeLine, t_input.node.col_offset,
                                    TYPE_COMMENT_AST_ERROR)>>
    /\ EvaluatedSequence =>
            /\ t_result.k = IF t_input.node.k = "Tuple" THEN "TupleType"
                            ELSE "TypeList"
            /\ Len(t_result.items) = Len(t_input.node.elts)
            /\ \A j \in 1..Len(t_input.node.elts) :
                    LET e == t_input.node.elts[j] IN
                    IF e.k \notin TC_SupportedKinds
                    THEN /\ t_result.items[j] = AnyType("from_error")
                         /\ Cardinality(AstErrorsAt(e)) = 1
                    ELSE t_result.items[j]
                            = TC_visit(WithSupportedOnly(t_input.node),
                                       TypeConverter(<<>>, TypeLine)).t.items[j]

\* A tuple of a number and `int` has been evaluated: the error type, then
\* the unbound type int, with one diagnostic.
C16_Witness ==
    /\ EvaluatedSequence
    /\ t_input.node.k = "Tuple"
    /\ Len(t_input.node.elts) = 2
    /\ t_input.node.elts[1].k = "Num"
    /\ t_input.node.elts[2].k = "Name"
    /\ t_result.items[1] = AnyType("from_error")
    /\ t_result.items[2].k = "UnboundType"
    /\ Len(t_errors) = 1

(***************************************************************************)
(* ---- Claims about the runs of fix_function_overloads (SpecOverloads) -- *)
(***************************************************************************)
\* The statement the loop is at joins the run in this step.
JoinsRun ==
    /\ current_overload # <<>>
    /\ current_overload' = Append(current_overload, stmts[i])
    /\ current_overload_name' = current_overload_name
    /\ ret' = ret

\* The statement the loop is at opens a run in this step, after the flush
\* of the run before it.
OpensRun ==
    /\ current_overload' = <<stmts[i]>>
    /\ current_overload_name' = stmts[i].name
    /\ ret' = FlushOverload(ret, current_overload)

\* The statement the loop is at is emitted on its own in this step, after
\* the flush of the run before it, and no run is left open.
EmittedAlone ==
    /\ current_overload' = <<>>
    /\ current_overload_name' = NoneStr
    /\ ret' = Append(FlushOverload(ret, current_overload), stmts[i])

\* One iteration of the loop does what C17 says of the statement it is at.
RunStep ==
    (pc = "loop" /\ i <= Len(stmts) /\ i' = i + 1) =>
        LET stmt == stmts[i]
            continues == /\ current_overload # <<>>
                         /\ stmt.k \in {"Decorator", "FuncDef"}
                         /\ stmt.name = current_overload[1].name
        IN  /\ JoinsRun <=> continues
            /\ (~continues /\ stmt.k = "Decorator") => OpensRun
            /\ (~continues /\ stmt.k # "Decorator") => EmittedAlone

\* The groups of the list returned.
Groups == {j \in 1..Len(ret) : ret[j].k = "OverloadedFuncDef"}

\* In the list returned: a bare function right after a same-named decorated
\* function is in a group with it, and a bare function whose predecessor is
\* not a function of its name stands on its own.
RunsReturned ==
    /\ \A j \in 1..(Len(stmts) - 1) :
            (/\ stmts[j].k = "Decorator" /\ stmts[j + 1].k = "FuncDef"
             /\ stmts[j].name = stmts[j + 1].name) =>
                \E g \in Groups : \E h \in 1..(Len(ret[g].items) - 1) :
                    ret[g].items[h] = stmts[j] /\ ret[g].items[h + 1] = stmts[j + 1]
    /\ \A j \in 1..Len(stmts) :
            (/\ stmts[j].k = "FuncDef"
             /\ \A h \in 1..(j - 1) :
                    (\A m \in h..(j - 1) : stmts[m].k \in {"Decorator", "FuncDef"}
                                            /\ stmts[m].name = stmts[j].name)
                        => stmts[h].k # "Decorator") =>
                \E m \in 1..Len(ret) : ret[m] = stmts[j]

\* C17: a statement joins the current run if and only if a run is open, the
\* statement is a decorated or a bare function and its name is the run's;
\* only a decorated function opens a run; any other statement is emitted on
\* its own.  So a bare function after a same-named decorated function is
\* merged into its group, and bare functions with no decorated function of
\* their name right before them are never grouped.
C17_RunMembership ==
    [][RunStep]_vars /\ [](pc = "done" => RunsReturned)

\* The input @f, f, g, g has been coalesced into the group (f, f), g, g.
C17_Witness ==
    /\ pc = "done"
    /\ Len(stmts) = 4
    /\ stmts[1].k = "Decorator" /\ stmts[1].name = "f"
    /\ stmts[2].k = "FuncDef" /\ stmts[2].name = "f"
    /\ stmts[3].k = "FuncDef" /\ stmts[3].name = "g"
    /\ stmts[4].k = "FuncDef" /\ stmts[4].name = "g"
    /\ ret = <<OverloadedFuncDef(<<stmts[1], stmts[2]>>), stmts[3], stmts[4]>>

RECURSIVE Flatten(_)
\* The list l with each overload group replaced by its items.
Flatten(l) ==
    IF l = <<>> THEN <<>>
    ELSE (IF Head(l).k = "OverloadedFuncDef" THEN Head(l).items ELSE <<Head(l)>>)
            \o Flatten(Tail(l))

\* C18: the list returned, each group replaced by its items in order, is the
\* input: nothing is dropped, duplicated or reordered, the run still open
\* at the end of the input included; during the loop the same holds of ret
\* and the open run against the statements seen.
C18_FlattenIsInput ==
    /\ pc = "done" => Flatten(ret) = stmts
    /\ pc = "loop" =>
            Flatten(ret) \o current_overload = SubSeq(stmts, 1, i - 1)

\* An input that ends inside a run of two has been coalesced: the last
\* element returned is that group.
C18_Witness ==
    /\ pc = "done"
    /\ Len(stmts) = 4
    /\ stmts[3].k = "Decorator" /\ stmts[4].k = "Decorator"
    /\ stmts[3].name = stmts[4].name
    /\ ret[Len(ret)] = OverloadedFuncDef(<<stmts[3], stmts[4]>>)
    /\ Flatten(ret) = stmts

(***************************************************************************)
(* ---- Claims on the implicit self type (SpecSignature) ----              *)
(***************************************************************************)
\* The function's signature comment parsed to a function type that lists
\* its argument types, and the function is type checked.
ListsOwnTypes ==
    /\ c_pc = "done"
    /\ ~no_type_check_of(ast)
    /\ ast.type_comment # PyNone
    /\ ast3_parse_func_type(ast.type_comment.s).ok
    /\ ~IsEllipsisComment(CommentTree(ast))

\* The types the comment lists, translated.
OwnTypes ==
    OrUnannotated(
        TC_translate_expr_list(CommentTree(ast).argtypes,
                               TypeConverter(<<>>, ast.lineno)).ts)

\* C19 as stated: the implicit self type is prepended exactly when the
\* function is in a class body and the comment lists one type fewer than the
\* function declares parameters; a comment two or more short gets nothing.
C19_SelfWhenOneShort ==
    ListsOwnTypes =>
        tree.arg_types =
            IF class_nesting > 0 /\ Len(OwnTypes) = Len(tree.args) - 1
            THEN <<AnyType("special_form")>> \o OwnTypes
            ELSE OwnTypes

\* C19 amended: the implicit self type is prepended exactly when the
\* function is in a class body and the comment lists fewer types than the
\* function declares parameters, by one or by more; outside a class, and for
\* a comment that is not short, nothing is prepended.
C19_SelfWhenShort ==
    ListsOwnTypes =>
        tree.arg_types =
            IF class_nesting > 0 /\ Len(OwnTypes) < Len(tree.args)
            THEN <<AnyType("special_form")>> \o OwnTypes
            ELSE OwnTypes

\* In a class, a comment of one type on a function of three parameters has
\* been given the implicit self type and is still one short.
C19_Witness ==
    /\ ListsOwnTypes
    /\ class_nesting > 0
    /\ Len(tree.args) = 3
    /\ Len(OwnTypes) = 1
    /\ Len(tree.arg_types) = 2
    /\ tree.arg_types[1] = AnyType("special_form")

(***************************************************************************)
(* ---- Claims on an unparsable signature comment (SpecModule) ----        *)
(***************************************************************************)
WRAP_IN_PARENTHESES == <<"Suggestion: wrap argument types in parentheses">>

\* The module's function is type checked and its signature comment is not
\* a function type.
HasUnparsableComment ==
    /\ c_pc = "done"
    /\ RawFunc.k = "FunctionDef"
    /\ ~HasNoTypeCheck(RawFunc)
    /\ RawFunc.type_comment # PyNone
    /\ ~ast3_parse_func_type(RawFunc.type_comment.s).ok

\* The comment has a first character and it is not "(".
StartsWithoutParenthesis(fd) ==
    fd.type_comment.s # <<>> /\ fd.type_comment.s[1] # "("

\* C20: a signature comment that cannot be parsed draws exactly one "syntax
\* error in type comment" blocker, at the function's position; every
\* parameter type and the return type become Any(from_error), one type for
\* each parameter, so that no arity diagnostic follows and the function gets
\* a callable type; the suggestion to wrap the argument types in parentheses
\* is noted exactly when the comment's first character is not "(" (an empty
\* comment has no first character and draws no note).
C20_UnparsableSignatureComment ==
    HasUnparsableComment =>
        /\ NumBlockers(errors) = 1
        /\ errors[1] = Blocker(RawFunc.lineno, RawFunc.col_offset,
                               TYPE_COMMENT_SYNTAX_ERROR)
        /\ ConvertedFunc.unanalyzed_type # PyNone
        /\ ConvertedFunc.unanalyzed_type.arg_types
                = [j \in 1..Len(RawFunc.args.args) |-> AnyType("from_error")]
        /\ ConvertedFunc.unanalyzed_type.ret_type = AnyType("from_error")
        /\ NumMsg(errors, TOO_FEW) = 0
        /\ NumMsg(errors, TOO_MANY) = 0
        /\ NumMsg(errors, WRAP_IN_PARENTHESES)
                = IF StartsWithoutParenthesis(RawFunc) THEN 1 ELSE 0
        /\ StartsWithoutParenthesis(RawFunc) =>
                errors = <<Blocker(RawFunc.lineno, RawFunc.col_offset,
                                   TYPE_COMMENT_SYNTAX_ERROR),
                           Note(RawFunc.lineno, RawFunc.col_offset,
                                WRAP_IN_PARENTHESES)>>

\* A method of three annotated parameters whose comment starts with "(" and
\* does not parse: one blocker, no note, three error types.
C20_Witness ==
    /\ HasUnparsableComment
    /\ InClassBody
    /\ Len(RawFunc.args.args) = 3
    /\ RawFunc.type_comment.s = <<"(", "int">>
    /\ Len(errors) = 1
    /\ Len(ConvertedFunc.unanalyzed_type.arg_types) = 3

(***************************************************************************)
(* ---- Claims on the ellipsis signature comment (SpecSignature) ----      *)
(***************************************************************************)
\* The function is type checked and its signature comment is `(...) -> R`.
HasEllipsisComment ==
    /\ c_pc = "done"
    /\ ~no_type_check_of(ast)
    /\ HasParsedComment(ast)
    /\ IsEllipsisComment(CommentTree(ast))

\* The type an annotation converts to, on its own.
AnnotationType(a) == TC_visit(a.annotation, TypeConverter(<<>>, a.lineno)).t

\* C21: under the signature comment `(...) -> R` every parameter's type is
\* the type of its own annotation, or Any(unannotated) where the parameter
\* has no type of its own, one type for each parameter; "Function has
\* duplicate type signatures" is reported exactly when the function has a
\* return annotation; the return type is the comment's R.
C21_EllipsisReusesAnnotations ==
    HasEllipsisComment =>
        /\ Len(tree.arg_types) = Len(ast.args.args)
        /\ Len(tree.arg_types) = Len(tree.args)
        /\ \A j \in 1..Len(tree.arg_types) :
            /\ ast.args.args[j].annotation # PyNone =>
                    tree.arg_types[j] = AnnotationType(ast.args.args[j])
            /\ tree.args[j].type_annotation = PyNone =>
                    tree.arg_types[j] = AnyType("unannotated")
            /\ tree.args[j].type_annotation # PyNone =>
                    tree.arg_types[j] = tree.args[j].type_annotation
        /\ NumMsg(errors, DUPLICATE_TYPE_SIGNATURES)
                = IF ast.returns # PyNone THEN 1 ELSE 0
        /\ tree.return_type
                = TC_visit(CommentTree(ast).returns,
                           TypeConverter(<<>>, ast.lineno)).t

\* In a class, a function of three parameters, the first annotated, with a
\* return annotation and the comment `(...) -> bool`: one duplicate
\* diagnostic, the types int, Any, Any and the return type bool.
C21_Witness ==
    /\ HasEllipsisComment
    /\ class_nesting > 0
    /\ Len(ast.args.args) = 3
    /\ ast.args.args[1].annotation # PyNone
    /\ ast.args.args[2].annotation = PyNone
    /\ ast.returns # PyNone
    /\ tree.arg_types[1].k = "UnboundType"
    /\ tree.arg_types[2] = AnyType("unannotated")
    /\ tree.return_type.name = "bool"
    /\ NumMsg(errors, DUPLICATE_TYPE_SIGNATURES) = 1

(***************************************************************************)
(* ---- Claims on implicit Optional (SpecModule) ----                      *)
(***************************************************************************)
\* The module's function has been converted and has a callable type.
HasCallableType ==
    /\ c_pc = "done"
    /\ ConvertedFunc.unanalyzed_type # PyNone

\* The converted parameter's default is the name None.
DefaultsToNone(a) == a.initializer.k = "NameExpr" /\ a.initializer.name = "None"

\* The type is an unbound type marked optional.
MarkedOptional(t) == t.k = "UnboundType" /\ t.optional

\* C22: under no_implicit_optional no parameter type is marked optional,
\* neither in the function's type nor on the parameters; without the option
\* the j-th type of the signature, the implicit self type counted, is marked
\* optional exactly when it is an unbound type and the j-th parameter's
\* default is the name None.
C22_ImplicitOptional ==
    HasCallableType =>
        /\ \A j \in 1..Len(ConvertedFunc.unanalyzed_type.arg_types) :
            MarkedOptional(ConvertedFunc.unanalyzed_type.arg_types[j])
                <=> /\ ~options.no_implicit_optional
                    /\ ConvertedFunc.unanalyzed_type.arg_types[j].k = "UnboundType"
                    /\ DefaultsToNone(ConvertedFunc.arguments[j])
        /\ \A j \in 1..Len(ConvertedFunc.arguments) :
            MarkedOptional(ConvertedFunc.arguments[j].type_annotation)
                => /\ ~options.no_implicit_optional
                   /\ DefaultsToNone(ConvertedFunc.arguments[j])

\* A method f(p1, p2=None) with the comment `(int) -> bool` and the option
\* unset: the types are the implicit self type and int, and int, paired with
\* p2, is marked optional.
C22_Witness ==
    /\ HasCallableType
    /\ InClassBody
    /\ ~options.no_implicit_optional
    /\ Len(ConvertedFunc.arguments) = 2
    /\ HasParsedComment(RawFunc)
    /\ ~IsEllipsisComment(CommentTree(RawFunc))
    /\ DefaultsToNone(ConvertedFunc.arguments[2])
    /\ ConvertedFunc.unanalyzed_type.arg_types[1] = AnyType("special_form")
    /\ MarkedOptional(ConvertedFunc.unanalyzed_type.arg_types[2])

(***************************************************************************)
(* ---- Claims on class_nesting and imports (SpecWalk) ----                *)
(***************************************************************************)
\* The classes among the visits in progress.
ClassesAround == {j \in 1..Len(visiting) : visiting[j].node.k = "ClassDef"}

\* C23: class_nesting is never negative; while the module is visited it is
\* the number of class definitions being visited, that is of the classes
\* around the statement visited next, whatever functions stand in between;
\* it is 0 when visit_Module has returned.
C23_ClassNestingCounts ==
    /\ class_nesting >= 0
    /\ c_pc = "visit" => class_nesting = Cardinality(ClassesAround)
    /\ c_pc = "done" => class_nesting = 0

\* A function is about to be converted inside a function inside a class:
\* the counter is 1.
C23_Witness ==
    /\ c_pc = "visit"
    /\ Len(visiting) = 3
    /\ visiting[2].node.k = "ClassDef"
    /\ visiting[3].node.k = "FunctionDef"
    /\ HasNext
    /\ NextStmt.k = "FunctionDef"
    /\ class_nesting = 1

\* The import statements of a statement list, nested ones included, in the
\* order of a depth-first traversal.
RECURSIVE ImportStmtsOf(_)
ImportStmtsOf(l) ==
    IF l = <<>> THEN <<>>
    ELSE (IF Head(l).k \in {"Import", "ImportFrom"} THEN <<Head(l)>>
          ELSE IF Head(l).k \in {"ClassDef", "FunctionDef"}
          THEN ImportStmtsOf(Head(l).body)
          ELSE <<>>)
         \o ImportStmtsOf(Tail(l))

\* The module name the translation table gives for a written name.
TableName(name) ==
    IF name = options.custom_typing_module THEN "typing"
    ELSE IF name = "__builtin__" /\ options.python_version[1] = 2 THEN "builtins"
    ELSE name

\* The converted import ci records the raw import statement n: the same
\* position and form and, for a plain import, for every name the alias
\* written, or the written name where none is written and the table gives
\* another name, or no alias.
RecordsImport(ci, n) ==
    /\ ci.line = n.lineno
    /\ ci.column = n.col_offset
    /\ n.k = "Import" =>
        /\ ci.k = "Import"
        /\ Len(ci.ids) = Len(n.names)
        /\ \A j \in 1..Len(n.names) :
            /\ ci.ids[j][1] = TableName(n.names[j].name)
            /\ ci.ids[j][2] =
                IF n.names[j].asname # NoneStr THEN n.names[j].asname
                ELSE IF TableName(n.names[j].name) # n.names[j].name
                THEN n.names[j].name
                ELSE NoneStr
    /\ n.k = "ImportFrom" =>
        IF Len(n.names) = 1 /\ n.names[1].name = "*"
        THEN ci.k = "ImportAll"
        ELSE ci.k = "ImportFrom"

\* The import statements visited so far: for every visit in progress,
\* outermost first, those of the statements it has gone past.
RECURSIVE VisitedImports(_)
VisitedImports(frames) ==
    IF frames = <<>> THEN <<>>
    ELSE ImportStmtsOf(SubSeq(Head(frames).node.body, 1, Head(frames).next - 1))
         \o VisitedImports(Tail(frames))

\* The list recorded holds one entry for each of the statements, in order.
RecordsAll(recorded, l) ==
    /\ Len(recorded) = Len(l)
    /\ \A j \in 1..Len(l) : RecordsImport(recorded[j], l[j])

RejectedCall(c) ==
    <<Blocker(TypeLine, c.col_offset, TYPE_COMMENT_AST_ERROR)>>
        \o (IF stringify_name(c.func) # NoneStr
            THEN <<Note(TypeLine, c.col_offset,
                        <<"Suggestion: use {}[...] instead of {}(...)",
                          stringify_name(c.func)>>)>>
            ELSE <<>>)

\* The string literal holds the text of a call.
QuotesCall(n) ==
    /\ n.k = "Str"
    /\ ast3_parse_eval(Strip(n.s)).ok
    /\ ast3_parse_eval(Strip(n.s)).body.k = "Call"

\* The call c has been taken as a constructor-argument literal in the slot.
AcceptedCall(c, slot) ==
    /\ slot.k = "CallableArgument"
    /\ AstErrorsAt(c) = {}
    /\ \A j \in 1..Len(t_errors) : t_errors[j].severity # "note"

\* C25: the node stack is empty again when the evaluation returns, whether
\* or not it reported an error; a call is taken as a constructor-argument
\* literal only as a direct element of a bracketed list; at the top of a
\* fragment, as an element of a function type comment's argument list, in a
\* tuple, in a subscript, alone or in its tuple, and in a string literal in
\* a bracketed list it yields one 'invalid type comment or annotation'
\* blocker and Any(from_error), with the note 'use Name[...] instead of
\* Name(...)' when the callee is a plain or dotted name.
C25_CallOnlyInList ==
    /\ t_pc = "done" => t_stack = <<>>
    /\ (EvaluatedNode /\ t_input.node.k = "Call") =>
            /\ t_result = AnyType("from_error")
            /\ t_errors = RejectedCall(t_input.node)
    /\ (t_pc = "done" /\ t_input.k = "argtypes") =>
            /\ Len(t_result) = Len(t_input.l)
            /\ \A j \in 1..Len(t_input.l) :
                t_input.l[j].k = "Call" =>
                    /\ t_result[j] = AnyType("from_error")
                    /\ t_errors = RejectedCall(t_input.l[j])
    /\ (EvaluatedNode /\ t_input.node.k = "Tuple") =>
            \A j \in 1..Len(t_input.node.elts) :
                t_input.node.elts[j].k = "Call" =>
                    /\ t_result.items[j] = AnyType("from_error")
                    /\ t_errors = RejectedCall(t_input.node.elts[j])
    /\ (EvaluatedNode /\ t_input.node.k = "Subscript"
            /\ t_input.node.slice.k = "Index") =>
            /\ t_input.node.slice.value.k = "Call" =>
                    /\ t_result.args = <<AnyType("from_error")>>
                    /\ t_errors = RejectedCall(t_input.node.slice.value)
            /\ t_input.node.slice.value.k = "Tuple" =>
                \A j \in 1..Len(t_input.node.slice.value.elts) :
                    /\ t_input.node.slice.value.elts[j].k = "Call" =>
                        /\ t_result.args[j] = AnyType("from_error")
                        /\ t_errors = RejectedCall(t_input.node.slice.value.elts[j])
                    /\ (/\ t_input.node.slice.value.elts[j].k = "List"
                        /\ Len(t_input.node.slice.value.elts[j].elts) = 1
                        /\ t_input.node.slice.value.elts[j].elts[1].k = "Call") =>
                        AcceptedCall(t_input.node.slice.value.elts[j].elts[1],
                                     t_result.args[j].items[1])
    /\ (EvaluatedNode /\ t_input.node.k = "List") =>
            \A j \in 1..Len(t_input.node.elts) :
                /\ t_input.node.elts[j].k = "Call" =>
                        AcceptedCall(t_input.node.elts[j], t_result.items[j])
                /\ QuotesCall(t_input.node.elts[j]) =>
                        /\ t_result.items[j] = AnyType("from_error")
                        /\ t_errors = RejectedCall(
                                ast3_parse_eval(Strip(t_input.node.elts[j].s)).body)

\* The string literal 'Arg(int)' in a bracketed list has been evaluated: the
\* call in it is rejected with the blocker and the note, and the stack is
\* empty.
C25_Witness ==
    /\ EvaluatedNode
    /\ t_input.node.k = "List"
    /\ Len(t_input.node.elts) = 1
    /\ QuotesCall(t_input.node.elts[1])
    /\ t_result.items[1] = AnyType("from_error")
    /\ Len(t_errors) = 2
    /\ t_stack = <<>>

=============================================================================
